---- MODULE Spec2Model ----
(***************************************************************************)
(* Model of the generative-chunks engine (src/src/generative_chunks):      *)
(* bounds.rs, usage.rs, layer_client.rs, layer.rs and layer_manager.rs.    *)
(*                                                                         *)
(* Real coordinates (f32 in the source) are fixed-point integers counting  *)
(* quarters: the real number x is the integer 4*x.  A Vec2 / Point is a    *)
(* pair <<x, y>>, a ChunkIdx a pair of integers, a Bounds a record         *)
(* [min, max] of two points.  Chunk sizes are even numbers of quarters, so *)
(* that chunk_size / 2.0 is exact.                                         *)
(***************************************************************************)
EXTENDS Integers, Sequences, FiniteSets, TLC

(***************************************************************************)
(* f32 arithmetic                                                          *)
(***************************************************************************)
Abs(n) == IF n < 0 THEN -n ELSE n

RECURSIVE Pow2(_)
Pow2(k) == IF k = 0 THEN 1 ELSE 2 * Pow2(k - 1)

\* number of bits of the natural n (0 for 0)
RECURSIVE BitLen(_)
BitLen(n) == IF n = 0 THEN 0 ELSE 1 + BitLen(n \div 2)

\* round-to-nearest, ties-to-even, of the integer n to a value with a
\* 24-bit significand (IEEE 754 binary32: 23 stored bits and the leading
\* one): the result of every f32 operation and of `as f32`.
\* The rounding does not depend on the position of the binary point, so it
\* is the same on quarters as on units.
F32Wide(n) ==
    LET a == Abs(n)
        u == Pow2(BitLen(a) - 24)
        q == a \div u
        r == a % u
        m == IF 2 * r > u \/ (2 * r = u /\ q % 2 = 1) THEN q + 1 ELSE q
    IN  IF n < 0 THEN -(m * u) ELSE m * u

F32(n) == IF BitLen(Abs(n)) <= 24 THEN n ELSE F32Wide(n)

\* (a / s).floor() as i32 and (a / s).ceil() as i32 for an f32 a and a chunk
\* size s > 0.  The f32 quotient is rounded before floor/ceil is taken; the
\* rounding cannot cross an integer when |a| < 2^24 quarters (the error is
\* below 1/s, the least distance of a non-integer a/s to an integer) and
\* there is none when s is a power of two, which are the only arguments the
\* specifications below draw.
FloorDiv(a, s) == a \div s
CeilDiv(a, s) == -((-a) \div s)

(***************************************************************************)
(* bounds.rs: Bounds                                                       *)
(***************************************************************************)
new(min, max) == [min |-> min, max |-> max]

expand(b, x, y) ==
    [min |-> <<F32(b.min[1] - x), F32(b.min[2] - y)>>,
     max |-> <<F32(b.max[1] + x), F32(b.max[2] + y)>>]

add_padding(b, padding) ==
    new(<<F32(b.min[1] - padding[1]), F32(b.min[2] - padding[2])>>,
        <<F32(b.max[1] + padding[1]), F32(b.max[2] + padding[2])>>)

contains(b, point) ==
    /\ point[1] >= b.min[1]
    /\ point[1] <= b.max[1]
    /\ point[2] >= b.min[2]
    /\ point[2] <= b.max[2]

intersects(b, other) ==
    \/ contains(b, other.min)
    \/ contains(b, other.max)
    \/ contains(other, b.min)
    \/ contains(other, b.max)

from_point(point) == new(point, point)

Min2(a, b) == IF a <= b THEN a ELSE b
Max2(a, b) == IF a >= b THEN a ELSE b

add_point(b, point) ==
    new(<<Min2(b.min[1], point[1]), Min2(b.min[2], point[2])>>,
        <<Max2(b.max[1], point[1]), Max2(b.max[2], point[2])>>)

\* the inclusive ranges min_chunk.0..=max_chunk.0 and min_chunk.1..=max_chunk.1
chunks(b, chunk_size) ==
    LET min_chunk == <<FloorDiv(b.min[1], chunk_size[1]), FloorDiv(b.min[2], chunk_size[2])>>
        max_chunk == <<CeilDiv(b.max[1], chunk_size[1]), CeilDiv(b.max[2], chunk_size[2])>>
    IN  (min_chunk[1] .. max_chunk[1]) \X (min_chunk[2] .. max_chunk[2])

\* the same iterator as the sequence of what it yields, x outermost
RECURSIVE IntRange(_, _)
IntRange(lo, hi) == IF lo > hi THEN <<>> ELSE <<lo>> \o IntRange(lo + 1, hi)

RECURSIVE FlatMap(_, _)
FlatMap(xs, ys) ==
    IF xs = <<>> THEN <<>>
    ELSE [k \in DOMAIN ys |-> <<Head(xs), ys[k]>>] \o FlatMap(Tail(xs), ys)

chunks_iter_half_open(b, chunk_size) ==
    LET min_chunk == <<FloorDiv(b.min[1], chunk_size[1]), FloorDiv(b.min[2], chunk_size[2])>>
        max_chunk == <<CeilDiv(b.max[1], chunk_size[1]), CeilDiv(b.max[2], chunk_size[2])>>
    IN  FlatMap(IntRange(min_chunk[1], max_chunk[1] - 1),
                IntRange(min_chunk[2], max_chunk[2] - 1))

chunks_iter(b, chunk_size) ==
    LET min_chunk == <<FloorDiv(b.min[1], chunk_size[1]), FloorDiv(b.min[2], chunk_size[2])>>
        max_chunk == <<CeilDiv(b.max[1], chunk_size[1]), CeilDiv(b.max[2], chunk_size[2])>>
    IN  FlatMap(IntRange(min_chunk[1], max_chunk[1]), IntRange(min_chunk[2], max_chunk[2]))

(***************************************************************************)
(* bounds.rs: ChunkIdx                                                     *)
(***************************************************************************)
to_point(idx, chunk_size) ==
    <<F32(F32(idx[1]) * chunk_size[1]), F32(F32(idx[2]) * chunk_size[2])>>

center(idx, chunk_size) ==
    LET p == to_point(idx, chunk_size)
    IN  <<F32(p[1] + chunk_size[1] \div 2), F32(p[2] + chunk_size[2] \div 2)>>

TruncDiv(a, d) == IF a < 0 THEN -((-a) \div d) ELSE a \div d

idx_from_point_trunc(pos, chunk_width, chunk_height) ==
    <<TruncDiv(pos[1], chunk_width), TruncDiv(pos[2], chunk_height)>>

idx_from_point(pos, chunk_width, chunk_height) ==
    <<FloorDiv(pos[1], chunk_width), FloorDiv(pos[2], chunk_height)>>

to_bounds(idx, width, height) ==
    new(<<F32(F32(idx[1]) * width), F32(F32(idx[2]) * height)>>,
        <<F32(F32(idx[1] + 1) * width), F32(F32(idx[2] + 1) * height)>>)

(***************************************************************************)
(* usage.rs: UsageStrategy and UsageCounter (u32 counts)                   *)
(***************************************************************************)
UsageStrategy == {"KeepAlive", "Slow", "Fast"}

\* Option::None of best_usage
NoUsage == "None"

UsageCounter_new == [keep_alive |-> 0, slow |-> 0, fast |-> 0]

is_empty(u) == u.keep_alive = 0 /\ u.slow = 0 /\ u.fast = 0

clear(u) == [keep_alive |-> 0, slow |-> 0, fast |-> 0]

increment(u, usage) ==
    CASE usage = "KeepAlive" -> [u EXCEPT !.keep_alive = @ + 1]
      [] usage = "Slow"      -> [u EXCEPT !.slow = @ + 1]
      [] usage = "Fast"      -> [u EXCEPT !.fast = @ + 1]

\* UsageCounter::decrement, `-= 1` on a u32: a build with overflow checks
\* panics when the count is 0, a build without them wraps to 2^32 - 1.  TLC's
\* integers have 32 bits, so a count of 2^31 and above is held as the count
\* minus 2^32: the wrapped 4294967295 is -1.  (The manager never calls
\* decrement, so the counts that best_usage meets are below 2^31.)
decrement_panics(u, usage) ==
    CASE usage = "KeepAlive" -> u.keep_alive = 0
      [] usage = "Slow"      -> u.slow = 0
      [] usage = "Fast"      -> u.fast = 0

decrement(u, usage) ==
    CASE usage = "KeepAlive" -> [u EXCEPT !.keep_alive = @ - 1]
      [] usage = "Slow"      -> [u EXCEPT !.slow = @ - 1]
      [] usage = "Fast"      -> [u EXCEPT !.fast = @ - 1]

best_usage_lowest_first(u) ==
    IF u.keep_alive > 0 THEN "KeepAlive"
    ELSE IF u.slow > 0 THEN "Slow"
    ELSE IF u.fast > 0 THEN "Fast"
    ELSE NoUsage

\* UsageCounter::best_usage (NoUsage for Option::None)
best_usage(u) ==
    IF u.fast > 0 THEN "Fast"
    ELSE IF u.slow > 0 THEN "Slow"
    ELSE IF u.keep_alive > 0 THEN "KeepAlive"
    ELSE NoUsage

(***************************************************************************)
(* layer.rs: ChunkWrapper, Dependency, LayerConfig                         *)
(***************************************************************************)
LayerIds == {"A", "B", "C", "D"}

\* Option::None of ChunkWrapper.chunk; a payload is a record whose field
\* `of` names the layer whose Chunk type it has
None == [of |-> "None"]

ChunkWrapper_new == [chunk |-> None, usage_counter |-> UsageCounter_new]

Dependency(layer_id, padding) == [layer_id |-> layer_id, padding |-> padding]

\* IntoLayerConfig::into_layer_config: a layer starts with an empty storage
LayerConfig(layer_id, chunk_size, depends_on) ==
    [layer_id |-> layer_id, depends_on |-> depends_on,
     chunk_size |-> chunk_size, storage |-> <<>>]

\* a sequence holding the elements of the finite set S once each (the order
\* in which a HashMap is iterated is not specified; one order is fixed)
RECURSIVE SetToSeq(_)
SetToSeq(S) ==
    IF S = {} THEN <<>>
    ELSE LET x == CHOOSE y \in S : TRUE IN <<x>> \o SetToSeq(S \ {x})

Range(s) == {s[k] : k \in DOMAIN s}

\* LayerConfig::requires: one (layer id, bounds) per stored index and dependency
RECURSIVE requiresOf(_, _)
requiresOf(layer, keys) ==
    IF keys = <<>> THEN <<>>
    ELSE LET bounds == to_bounds(Head(keys), layer.chunk_size[1], layer.chunk_size[2])
         IN  [k \in DOMAIN layer.depends_on |->
                 <<layer.depends_on[k].layer_id,
                   add_padding(bounds, layer.depends_on[k].padding)>>]
             \o requiresOf(layer, Tail(keys))

requires_used(layer) ==
    requiresOf(layer, SetToSeq({idx \in DOMAIN layer.storage :
                                    ~is_empty(layer.storage[idx].usage_counter)}))

requires(layer) == requiresOf(layer, SetToSeq(DOMAIN layer.storage))

\* LayerConfig::ensure_generated: every index of bounds.chunks gets an entry
\* (a new ChunkWrapper when absent) and one more Fast usage
ensure_generated_replace(layer, bounds) ==
    LET covered == chunks(bounds, layer.chunk_size)
        old == layer.storage
    IN  [layer EXCEPT !.storage =
            [idx \in (DOMAIN old) \cup covered |->
                IF idx \in covered
                THEN [ChunkWrapper_new EXCEPT !.usage_counter =
                        increment(IF idx \in DOMAIN old THEN old[idx].usage_counter
                                  ELSE UsageCounter_new, "Fast")]
                ELSE old[idx]]]

ensure_generated(layer, bounds) ==
    LET covered == chunks(bounds, layer.chunk_size)
        old == layer.storage
    IN  [layer EXCEPT !.storage =
            [idx \in (DOMAIN old) \cup covered |->
                LET chunk_wrapper == IF idx \in DOMAIN old THEN old[idx] ELSE ChunkWrapper_new
                IN  IF idx \in covered
                    THEN [chunk_wrapper EXCEPT !.usage_counter = increment(@, "Fast")]
                    ELSE chunk_wrapper]]

clear_usage_keep(layer) == layer

clear_usage_new_wrapper(layer) ==
    [layer EXCEPT !.storage = [idx \in DOMAIN layer.storage |-> ChunkWrapper_new]]

\* LayerConfig::clear_usage
clear_usage(layer) ==
    [layer EXCEPT !.storage =
        [idx \in DOMAIN layer.storage |-> [@[idx] EXCEPT !.usage_counter = clear(@)]]]

get_chunk_as_any(chunk_wrapper, T) == chunk_wrapper.chunk

\* ChunkWrapper::get_chunk::<T>: the payload when it has the type of layer T
get_chunk_as(chunk_wrapper, T) ==
    IF chunk_wrapper.chunk # None /\ chunk_wrapper.chunk.of = T
    THEN chunk_wrapper.chunk ELSE None

\* LayerLookupChunk::get_chunks_in::<L>: the payloads of layer L found at the
\* indices of bounds.chunks
lookup_get_chunks_in(layers, L, bounds) ==
    {idx \in chunks(bounds, layers[L].chunk_size) :
        /\ idx \in DOMAIN layers[L].storage
        /\ get_chunk_as(layers[L].storage[idx], L) # None}

\* LayerLookupChunk::get_chunk_from_idx::<L>(layer_id, chunk_idx)
get_chunk_from_idx(layers, L, layer_id, chunk_idx) ==
    IF chunk_idx \notin DOMAIN layers[layer_id].storage THEN None
    ELSE get_chunk_as(layers[layer_id].storage[chunk_idx], L)

\* LayerLookupChunk::get_chunk::<L>(layer_id, pos): the index is taken with
\* the chunk size of L
lookup_get_chunk(layers, L, layer_id, pos) ==
    get_chunk_from_idx(layers, L, layer_id,
        idx_from_point(pos, layers[L].chunk_size[1], layers[L].chunk_size[2]))

\* Layer::generate of a producer: a function of the index and of what the
\* lookup shows of the declared dependencies in their padded regions
Layer_generate(layers, layer, chunk_idx) ==
    [of |-> layer.layer_id, at |-> chunk_idx,
     seen |-> UNION {
        {<<layer.depends_on[k].layer_id, j>> :
            j \in lookup_get_chunks_in(layers, layer.depends_on[k].layer_id,
                    add_padding(to_bounds(chunk_idx, layer.chunk_size[1], layer.chunk_size[2]),
                                layer.depends_on[k].padding))}
        : k \in DOMAIN layer.depends_on}]

to_delete_none(layer) == {}

\* the indices LayerConfig::generate deletes and those it generates
to_delete(layer) ==
    {idx \in DOMAIN layer.storage : best_usage(layer.storage[idx].usage_counter) = NoUsage}

to_generate_always(layer) ==
    {idx \in DOMAIN layer.storage : best_usage(layer.storage[idx].usage_counter) = "Fast"}

to_generate_any_tier(layer) ==
    {idx \in DOMAIN layer.storage :
        /\ best_usage(layer.storage[idx].usage_counter) # NoUsage
        /\ layer.storage[idx].chunk = None}

to_generate(layer) ==
    {idx \in DOMAIN layer.storage :
        /\ best_usage(layer.storage[idx].usage_counter) = "Fast"
        /\ layer.storage[idx].chunk = None}

\* LayerConfig::generate: the layer after the pass (LayerGenerationResult.deleted
\* is to_delete of the layer before the pass)
generate_keep_unused(layers, layer) ==
    [layer EXCEPT !.storage =
        [idx \in DOMAIN layer.storage |->
            IF idx \in to_generate(layer)
            THEN [@[idx] EXCEPT !.chunk = Layer_generate(layers, layer, idx)]
            ELSE @[idx]]]

generate(layers, layer) ==
    [layer EXCEPT !.storage =
        [idx \in (DOMAIN layer.storage) \ to_delete(layer) |->
            IF idx \in to_generate(layer)
            THEN [@[idx] EXCEPT !.chunk = Layer_generate(layers, layer, idx)]
            ELSE @[idx]]]

(***************************************************************************)
(* layer_client.rs: LayerClient                                            *)
(***************************************************************************)
LayerClient(is_active, at, dependencies, strength) ==
    [active |-> is_active, center |-> at,
     dependencies |-> dependencies, strategy |-> strength]

(***************************************************************************)
(* layer_manager.rs: LayersManagerBuilder::build                           *)
(***************************************************************************)
\* dag_index: the node of each layer id (a later insert replaces an earlier)
dag_index(list) ==
    [id \in {list[k].layer_id : k \in DOMAIN list} |->
        CHOOSE k \in DOMAIN list :
            /\ list[k].layer_id = id
            /\ \A j \in DOMAIN list : list[j].layer_id = id => j <= k]

\* dag_index.get(&id.get_layer_id()).unwrap() fails on a dependency that was never added
unknown_dependency(list) ==
    \E k \in DOMAIN list : \E d \in DOMAIN list[k].depends_on :
        list[k].depends_on[d].layer_id \notin DOMAIN dag_index(list)

dag_edges_reversed(list) ==
    UNION {{<<dag_index(list)[list[k].depends_on[d].layer_id],
               dag_index(list)[list[k].layer_id]>> :
                d \in DOMAIN list[k].depends_on} : k \in DOMAIN list}

\* the edges build hands to Dag::add_edges, layer after layer
dag_edges(list) ==
    UNION {{<<dag_index(list)[list[k].layer_id],
               dag_index(list)[list[k].depends_on[d].layer_id]>> :
                d \in DOMAIN list[k].depends_on} : k \in DOMAIN list}

RECURSIVE Closure(_, _)
Closure(edges, S) ==
    LET T == S \cup {e[2] : e \in {f \in edges : f[1] \in S}}
    IN  IF T = S THEN S ELSE Closure(edges, T)

children(edges, n) == {e[2] : e \in {f \in edges : f[1] = n}}

parents_none(edges, n) == {}

\* the nodes with an edge to n: Topo yields n once it has yielded them all
parents(edges, n) == {e[1] : e \in {f \in edges : f[2] = n}}

\* Dag::add_edges answers WouldCycle when the edges close a directed cycle
would_cycle_self_loop_only(edges) == \E e \in edges : e[1] = e[2]

would_cycle(edges) ==
    \E e \in edges : e[1] \in Closure(edges, {e[2]})

\* build panics (no LayersManager) or returns the manager
build_panics(list) ==
    unknown_dependency(list) \/ would_cycle(dag_edges(list))

build_layers(list) ==
    [id \in DOMAIN dag_index(list) |-> list[dag_index(list)[id]]]

build_dag(list) ==
    [nodes |-> [k \in DOMAIN list |-> list[k].layer_id], edges |-> dag_edges(list)]

build_delete_list(list) == [id \in DOMAIN dag_index(list) |-> <<>>]

(***************************************************************************)
(* State                                                                   *)
(***************************************************************************)
VARIABLES
    builder,        \* LayersManagerBuilder.layers, the Vec of added layers
    pc,             \* "builder", "idle", "cascade", "generate", "panicked"; "pure" in SpecPure
    layers,         \* LayersManager.layers: layer id -> LayerConfig
    dag,            \* LayersManager.dag: nodes (layer ids) and edges between nodes
    layer_client,   \* LayersManager.layer_client
    delete_list,    \* LayersManager.delete_list: layer id -> Vec of indices
    visited,        \* generate_requirements: the nodes Topo has yielded
    stack,          \* generate_requirements: the nodes in the order they were visited
    gen_pos,        \* generate_requirements: position of stack.iter().rev()
    ticked,         \* history: regenerate has returned at least once
    demanded,       \* history: layer id -> indices ensure_generated touched in this tick
    genLog,         \* history: <<layer id, index>> the generation function was called for in this tick
    before,         \* history: `layers` when the current (or last) tick started
    direct,         \* history: layer id -> indices the active clients of this tick cover
    clientsTouched, \* history: layer_client was changed since the last tick started
    sameClients,    \* history: this tick runs on the layer_client of the tick before
    tickActive,     \* history: the active clients of this tick
    wasActive,      \* history: the active clients of the tick before
    genOrder,       \* history: the layers LayerConfig::generate was called on in this tick, in order
    lastDeleted,    \* history: the delete list the tick before this one left
    locks,          \* the layers whose Mutex is locked
    lookups,        \* the layers the generation function in progress has still to look up
    poisoned,       \* the layers whose Mutex is poisoned: a thread panicked holding its guard
    arg,            \* SpecPure: the arguments drawn
    res             \* SpecPure: the results computed

vars == <<builder, pc, layers, dag, layer_client, delete_list, visited, stack,
          gen_pos, ticked, demanded, genLog, before, direct, clientsTouched, sameClients,
          tickActive, wasActive, genOrder, lastDeleted, locks, lookups, poisoned, arg, res>>

managerVars == <<builder, pc, layers, dag, layer_client, delete_list, visited, stack,
                 gen_pos, ticked, demanded, genLog, before, direct, clientsTouched, sameClients,
                 tickActive, wasActive, genOrder, lastDeleted, locks, lookups, poisoned>>

(***************************************************************************)
(* Bounds of the model                                                     *)
(***************************************************************************)
MaxClients == 2

\* the layer sets the manager is built from: a single layer (mod.rs
\* test_simple_generation), a dependent layer with a coarser dependency
\* (test_simple_generation_with_deps), a chain added in reverse order and a
\* diamond
CfgSingle == <<LayerConfig("A", <<4, 4>>, <<>>)>>

CfgPair ==
    <<LayerConfig("B", <<8, 8>>, <<>>),
      LayerConfig("A", <<4, 4>>, <<Dependency("B", <<4, 4>>)>>)>>

CfgChain ==
    <<LayerConfig("C", <<8, 8>>, <<>>),
      LayerConfig("B", <<4, 4>>, <<Dependency("C", <<0, 0>>)>>),
      LayerConfig("A", <<4, 4>>, <<Dependency("B", <<0, 0>>)>>)>>

CfgDiamond ==
    <<LayerConfig("A", <<4, 4>>, <<Dependency("B", <<0, 0>>), Dependency("C", <<4, 0>>)>>),
      LayerConfig("B", <<4, 4>>, <<Dependency("D", <<0, 0>>)>>),
      LayerConfig("C", <<8, 8>>, <<Dependency("D", <<0, 0>>)>>),
      LayerConfig("D", <<8, 8>>, <<>>)>>

Configs == {CfgSingle, CfgPair, CfgChain, CfgDiamond}

\* layer sets for the managers whose host names a layer that was never added:
\* a layer alone, and a layer that declares a dependency on a missing one
CfgLone == <<LayerConfig("D", <<4, 4>>, <<>>)>>

CfgDangling == <<LayerConfig("A", <<4, 4>>, <<Dependency("X", <<0, 0>>)>>)>>

\* the layer clients the host may add to the manager of each configuration:
\* the client of test_simple_generation (point (0,0), padding (2,2)), clients
\* on a dependent layer and on a dependency, at a second point, of either
\* strategy, active or not
ClientChoices(list) ==
    CASE list = CfgSingle ->
            {LayerClient(TRUE, <<0, 0>>, <<Dependency("A", <<8, 8>>)>>, "Fast"),
             LayerClient(TRUE, <<6, 2>>, <<Dependency("A", <<4, 0>>)>>, "Slow"),
             LayerClient(FALSE, <<0, 0>>, <<Dependency("A", <<4, 4>>)>>, "Fast")}
      [] list = CfgPair ->
            {LayerClient(TRUE, <<0, 0>>, <<Dependency("A", <<0, 0>>)>>, "Fast"),
             LayerClient(TRUE, <<6, 2>>, <<Dependency("B", <<4, 0>>)>>, "Slow"),
             LayerClient(FALSE, <<0, 0>>, <<Dependency("A", <<4, 4>>)>>, "Fast")}
      [] list = CfgChain ->
            {LayerClient(TRUE, <<0, 0>>, <<Dependency("A", <<0, 0>>)>>, "Fast"),
             LayerClient(TRUE, <<6, 2>>, <<Dependency("A", <<0, 0>>)>>, "KeepAlive"),
             LayerClient(TRUE, <<0, 0>>, <<Dependency("C", <<0, 0>>), Dependency("B", <<0, 0>>)>>, "Fast")}
      [] list = CfgDiamond ->
            {LayerClient(TRUE, <<0, 0>>, <<Dependency("A", <<0, 0>>)>>, "Fast"),
             LayerClient(TRUE, <<-4, 0>>, <<Dependency("D", <<0, 0>>)>>, "Slow"),
             LayerClient(FALSE, <<0, 0>>, <<Dependency("A", <<0, 0>>)>>, "Fast")}
      [] list = CfgLone ->
            {LayerClient(TRUE, <<0, 0>>, <<Dependency("D", <<4, 0>>)>>, "Fast"),
             LayerClient(TRUE, <<0, 0>>, <<Dependency("X", <<0, 0>>)>>, "Fast"),
             LayerClient(TRUE, <<6, 2>>, <<Dependency("D", <<0, 0>>), Dependency("X", <<0, 0>>)>>, "Slow"),
             LayerClient(FALSE, <<0, 0>>, <<Dependency("X", <<0, 0>>)>>, "Fast")}

(***************************************************************************)
(* layer_manager.rs: LayersManager                                         *)
(***************************************************************************)
RECURSIVE client_deps_skip_unknown(_, _, _)
client_deps_skip_unknown(ls, client, k) ==
    IF k > Len(client.dependencies) THEN ls
    ELSE LET dep == client.dependencies[k]
             bounds == add_padding(from_point(client.center), dep.padding)
         IN  IF dep.layer_id \notin DOMAIN ls.layers
             THEN client_deps_skip_unknown(ls, client, k + 1)
             ELSE client_deps_skip_unknown(
                    [ls EXCEPT !.layers[dep.layer_id] = ensure_generated(@, bounds),
                               !.demanded[dep.layer_id] =
                                    @ \cup chunks(bounds, ls.layers[dep.layer_id].chunk_size)],
                    client, k + 1)

\* check_client_usages: the demand of the dependencies k.. of one client
RECURSIVE client_deps(_, _, _)
client_deps(ls, client, k) ==
    IF ls.panicked \/ k > Len(client.dependencies) THEN ls
    ELSE LET dep == client.dependencies[k]
             bounds == add_padding(from_point(client.center), dep.padding)
         IN  IF dep.layer_id \notin DOMAIN ls.layers
             THEN [ls EXCEPT !.panicked = TRUE]
             ELSE client_deps(
                    [ls EXCEPT !.layers[dep.layer_id] = ensure_generated(@, bounds),
                               !.demanded[dep.layer_id] =
                                    @ \cup chunks(bounds, ls.layers[dep.layer_id].chunk_size)],
                    client, k + 1)

RECURSIVE check_client_usages_all(_, _, _)
check_client_usages_all(ls, clients, k) ==
    IF ls.panicked \/ k > Len(clients) THEN ls
    ELSE check_client_usages_all(client_deps(ls, clients[k], 1), clients, k + 1)

\* check_client_usages: the clients k.. in turn, inactive ones skipped
RECURSIVE check_client_usages(_, _, _)
check_client_usages(ls, clients, k) ==
    IF ls.panicked \/ k > Len(clients) THEN ls
    ELSE IF ~clients[k].active THEN check_client_usages(ls, clients, k + 1)
    ELSE check_client_usages(client_deps(ls, clients[k], 1), clients, k + 1)

\* generate_requirements, first loop body: requirements k.. of the visited
\* layer are handed to their dependencies
RECURSIVE pass_requirements(_, _, _)
pass_requirements(ls, requirements, k) ==
    IF k > Len(requirements) THEN ls
    ELSE LET dependency_id == requirements[k][1]
             bounds == requirements[k][2]
         IN  pass_requirements(
                [ls EXCEPT !.layers[dependency_id] = ensure_generated(@, bounds),
                           !.demanded[dependency_id] =
                                @ \cup chunks(bounds, ls.layers[dependency_id].chunk_size)],
                requirements, k + 1)

NoDemand == [id \in DOMAIN layers |-> {}]

\* stack.iter().rev(): the node generated when k nodes are still to generate
rev_nth_forward(nodes, k) == nodes[Len(nodes) - k + 1]

rev_nth(nodes, k) == nodes[k]

\* LayersManager::get_chunk::<L>(pos)
get_chunk(ls, L, pos) ==
    LET layer == ls[L]
        chunk_idx == idx_from_point(pos, layer.chunk_size[1], layer.chunk_size[2])
    IN  IF chunk_idx \notin DOMAIN layer.storage THEN None
        ELSE get_chunk_as(layer.storage[chunk_idx], L)

\* the loop of get_chunks_in and get_all_chunks_in: (index, payload) is
\* pushed for each index met that is stored with a payload of the type of L
RECURSIVE push_chunks(_, _, _)
push_chunks(indices, storage, L) ==
    IF indices = <<>> THEN <<>>
    ELSE LET chunk_idx == Head(indices)
             data == IF chunk_idx \in DOMAIN storage
                     THEN get_chunk_as(storage[chunk_idx], L) ELSE None
         IN  IF data # None
             THEN <<<<chunk_idx, data>>>> \o push_chunks(Tail(indices), storage, L)
             ELSE push_chunks(Tail(indices), storage, L)

\* LayersManager::get_all_chunks_in::<L>(): the pairs of index and payload
\* of the stored chunks that have a payload, in the order of the storage
get_all_chunks_in(ls, L) ==
    push_chunks(SetToSeq(DOMAIN ls[L].storage), ls[L].storage, L)

get_chunks_in_all(ls, L, bounds) == get_all_chunks_in(ls, L)

\* LayersManager::get_chunks_in::<L>(bounds): the same for the indices of
\* bounds.chunks, in their order
get_chunks_in(ls, L, bounds) ==
    push_chunks(chunks_iter(bounds, ls[L].chunk_size), ls[L].storage, L)

clear_deleted_keep(list) == list

\* LayersManager::clear_deleted: every list of the delete list is emptied
clear_deleted(list) == [id \in DOMAIN list |-> <<>>]

\* LayersManager::get_deleted_chunks::<L>()
get_deleted_chunks(L) == delete_list[L]

\* the indices of each layer that the padded point of an active client covers
DirectDemand(clients) ==
    [id \in DOMAIN layers |->
        UNION {UNION {chunks(add_padding(from_point(clients[k].center),
                                         clients[k].dependencies[d].padding),
                             layers[id].chunk_size) :
                        d \in {e \in DOMAIN clients[k].dependencies :
                                    clients[k].dependencies[e].layer_id = id}} :
               k \in {j \in DOMAIN clients : clients[j].active}}]

AddLayerClientEager ==
    /\ pc = "idle"
    /\ Len(layer_client) < MaxClients
    /\ \E c \in ClientChoices(builder) :
        /\ layer_client' = Append(layer_client, c)
        /\ layers' = check_client_usages(
                        [layers |-> layers, demanded |-> demanded, panicked |-> FALSE],
                        <<c>>, 1).layers
    /\ clientsTouched' = TRUE
    /\ UNCHANGED <<builder, pc, dag, delete_list, visited, stack, gen_pos,
                   ticked, demanded, genLog, before, direct, sameClients,
                   tickActive, wasActive, genOrder, lastDeleted, locks, lookups, poisoned, arg, res>>

\* add_layer_client
AddLayerClient ==
    /\ pc = "idle"
    /\ Len(layer_client) < MaxClients
    /\ \E c \in ClientChoices(builder) :
        layer_client' = Append(layer_client, c)
    /\ clientsTouched' = TRUE
    /\ UNCHANGED <<builder, pc, layers, dag, delete_list, visited, stack, gen_pos,
                   ticked, demanded, genLog, before, direct, sameClients,
                   tickActive, wasActive, genOrder, lastDeleted, locks, lookups, poisoned, arg, res>>

\* clear_layer_clients
ClearLayerClients ==
    /\ pc = "idle"
    /\ layer_client # <<>>
    /\ layer_client' = <<>>
    /\ clientsTouched' = TRUE
    /\ UNCHANGED <<builder, pc, layers, dag, delete_list, visited, stack, gen_pos,
                   ticked, demanded, genLog, before, direct, sameClients,
                   tickActive, wasActive, genOrder, lastDeleted, locks, lookups, poisoned, arg, res>>

\* Mutex::lock on the Mutex of layer id returns Err: the Mutex is poisoned
\* (lock().unwrap() panics, `if let Ok(..) = lock()` skips)
lock_fails_never(id) == FALSE

lock_fails(id) == id \in poisoned

\* the requirements the first loop hands over before it comes to a
\* dependency whose lock fails
lockable_prefix(requirements) ==
    LET failing == {k \in DOMAIN requirements : lock_fails(requirements[k][1])}
    IN  IF failing = {} THEN requirements
        ELSE SubSeq(requirements, 1, (CHOOSE k \in failing : \A j \in failing : k <= j) - 1)

\* regenerate up to the call of generate_requirements: clear_usage (a layer
\* whose lock fails is skipped), clear_deleted, check_client_usages (which
\* panics at a dependency whose layer is missing or whose lock fails)
regenerate_entered ==
    /\ LET cleared == [id \in {i \in DOMAIN layers : ~lock_fails(i)} |->
                            clear_usage(layers[id])]
           ls == check_client_usages(
                    [layers |-> cleared, demanded |-> NoDemand, panicked |-> FALSE],
                    layer_client, 1)
       IN  /\ layers' = [id \in DOMAIN layers |->
                            IF lock_fails(id) THEN layers[id] ELSE ls.layers[id]]
           /\ demanded' = ls.demanded
           /\ pc' = IF ls.panicked THEN "panicked" ELSE "cascade"
    /\ delete_list' = clear_deleted(delete_list)
    /\ visited' = {}
    /\ stack' = <<>>
    /\ gen_pos' = 0
    /\ genLog' = {}
    /\ before' = layers
    /\ direct' = DirectDemand(layer_client)
    /\ sameClients' = (ticked /\ ~clientsTouched)
    /\ tickActive' = {layer_client[k] : k \in {j \in DOMAIN layer_client : layer_client[j].active}}
    /\ wasActive' = tickActive
    /\ genOrder' = <<>>
    /\ lastDeleted' = delete_list
    /\ clientsTouched' = FALSE
    /\ UNCHANGED <<builder, dag, layer_client, ticked, locks, lookups, poisoned, arg, res>>

RegenerateStart == pc = "idle" /\ regenerate_entered

\* generate_requirements, one turn of the first loop: Topo yields a node all
\* of whose parents it has yielded; the layer's requirements go to its
\* dependencies; the node is pushed on the stack.  The turn panics at the
\* lock of the layer, or of a dependency, that fails.
CascadeStep ==
    /\ pc = "cascade"
    /\ \E node \in DOMAIN dag.nodes :
        /\ node \notin visited
        /\ parents(dag.edges, node) \subseteq visited
        /\ LET layer_id == dag.nodes[node]
               requirements == IF lock_fails(layer_id) THEN <<>>
                               ELSE requires(layers[layer_id])
               reached == lockable_prefix(requirements)
               ls == pass_requirements(
                        [layers |-> layers, demanded |-> demanded], reached, 1)
           IN  /\ layers' = ls.layers
               /\ demanded' = ls.demanded
               /\ IF lock_fails(layer_id) \/ Len(reached) < Len(requirements)
                  THEN pc' = "panicked" /\ UNCHANGED <<visited, stack, gen_pos>>
                  ELSE /\ visited' = visited \cup {node}
                       /\ stack' = Append(stack, node)
                       /\ IF visited' = DOMAIN dag.nodes
                          THEN pc' = "generate" /\ gen_pos' = Len(stack')
                          ELSE pc' = "cascade" /\ gen_pos' = gen_pos
    /\ UNCHANGED <<builder, dag, layer_client, delete_list, ticked, genLog, before,
                   direct, clientsTouched, sameClients,
                   tickActive, wasActive, genOrder, lastDeleted, locks, lookups, poisoned, arg, res>>

\* generate_requirements, one turn of stack.iter().rev(): the layer generates
\* and its deleted indices are added to the delete list
generate_turn ==
    /\ LET layer_id == dag.nodes[rev_nth(stack, gen_pos)]
       IN  /\ layers' = [layers EXCEPT ![layer_id] = generate(layers, @)]
           /\ delete_list' = [delete_list EXCEPT
                                ![layer_id] = @ \o SetToSeq(to_delete(layers[layer_id]))]
           /\ genLog' = genLog \cup {<<layer_id, idx>> : idx \in to_generate(layers[layer_id])}
           /\ genOrder' = Append(genOrder, layer_id)
    /\ gen_pos' = gen_pos - 1
    /\ IF gen_pos' = 0
       THEN pc' = "idle" /\ ticked' = TRUE
       ELSE pc' = "generate" /\ ticked' = ticked
    /\ UNCHANGED <<builder, dag, layer_client, visited, stack, demanded, before,
                   direct, clientsTouched, sameClients,
                   tickActive, wasActive, lastDeleted, poisoned, arg, res>>

GenerateStep ==
    /\ pc = "generate"
    /\ gen_pos > 0
    /\ generate_turn
    /\ UNCHANGED <<locks, lookups>>

\* the manager LayersManagerBuilder::build returns for the layers of a
\* configuration, before any client is added
Init ==
    /\ builder \in Configs
    /\ pc = "idle"
    /\ layers = build_layers(builder)
    /\ dag = build_dag(builder)
    /\ layer_client = <<>>
    /\ delete_list = build_delete_list(builder)
    /\ visited = {}
    /\ stack = <<>>
    /\ gen_pos = 0
    /\ ticked = FALSE
    /\ demanded = [id \in DOMAIN build_layers(builder) |-> {}]
    /\ genLog = {}
    /\ before = build_layers(builder)
    /\ direct = [id \in DOMAIN build_layers(builder) |-> {}]
    /\ clientsTouched = FALSE
    /\ sameClients = FALSE
    /\ tickActive = {}
    /\ wasActive = {}
    /\ genOrder = <<>>
    /\ lastDeleted = <<>>
    /\ locks = {}
    /\ lookups = <<>>
    /\ poisoned = {}
    /\ arg = <<>>
    /\ res = <<>>

Next ==
    \/ AddLayerClient
    \/ ClearLayerClients
    \/ RegenerateStart
    \/ CascadeStep
    \/ GenerateStep

Spec == Init /\ [][Next]_vars

(***************************************************************************)
(* Properties of a tick                                                    *)
(***************************************************************************)
\* the region of a dependency that the chunk idx of `layer` asks for
dependency_bounds(layer, idx, k) ==
    add_padding(to_bounds(idx, layer.chunk_size[1], layer.chunk_size[2]),
                layer.depends_on[k].padding)

\* every index of every dependency region of <<layer, idx>> is stored with a payload
DepsReady(ls, layer, idx) ==
    \A k \in DOMAIN layer.depends_on :
        LET dep == ls[layer.depends_on[k].layer_id]
        IN  \A j \in chunks(dependency_bounds(layer, idx, k), dep.chunk_size) :
                /\ j \in DOMAIN dep.storage
                /\ dep.storage[j].chunk # None

\* C1: whenever the generation function of a producer is called for an index,
\* every index of every declared dependency that Bounds::chunks yields for the
\* padded bounds of that index is in the dependency's storage with its payload.
C1_DependenciesGeneratedFirst ==
    [][\A p \in genLog' \ genLog : DepsReady(layers, layers[p[1]], p[2])]_vars

\* a producer with two dependencies, each with a dependency of its own, has generated
C1_Witness ==
    /\ builder = CfgDiamond
    /\ <<"A", <<0, 0>>>> \in genLog
    /\ layers["A"].storage[<<0, 0>>].chunk.seen # {}

\* the indices demanded in a tick, as the claim defines them: covered by an
\* active client (direct), or by the padded bounds of a demanded index of a
\* dependent producer
RECURSIVE Demanded(_)
Demanded(id) ==
    direct[id] \cup
    UNION {UNION {UNION {chunks(dependency_bounds(layers[a], idx, k), layers[id].chunk_size) :
                            idx \in Demanded(a)} :
                    k \in {e \in DOMAIN layers[a].depends_on :
                                layers[a].depends_on[e].layer_id = id}} :
           a \in DOMAIN layers}

\* C2: after a tick the storage of each producer holds exactly the indices
\* demanded in that tick, directly or through demanded indices of dependents.
C2_CacheIsExactlyDemanded ==
    (pc = "idle" /\ ticked) =>
        \A id \in DOMAIN layers : DOMAIN layers[id].storage = Demanded(id)

\* number of times x occurs in the sequence s
Count(s, x) == Cardinality({k \in DOMAIN s : s[k] = x})

\* C3: after a tick, every index stored before the tick that no
\* ensure_generated call of the tick touched is reported exactly once by
\* get_deleted_chunks and is no longer stored, and no stored index is reported.
C3_EvictionReport ==
    (pc = "idle" /\ ticked) =>
        \A id \in DOMAIN layers :
            /\ \A idx \in (DOMAIN before[id].storage) \ demanded[id] :
                    /\ Count(get_deleted_chunks(id), idx) = 1
                    /\ idx \notin DOMAIN layers[id].storage
            /\ \A idx \in DOMAIN layers[id].storage :
                    Count(get_deleted_chunks(id), idx) = 0

\* a tick has evicted indices of a producer while it kept others
C3_Witness ==
    /\ pc = "idle"
    /\ ticked
    /\ \E id \in DOMAIN layers :
        /\ get_deleted_chunks(id) # <<>>
        /\ layers[id].storage # <<>>
        /\ (DOMAIN before[id].storage) \ demanded[id] # {}

\* two closed rectangles share a point
RectIntersects(a, b) ==
    /\ a.min[1] <= b.max[1]
    /\ b.min[1] <= a.max[1]
    /\ a.min[2] <= b.max[2]
    /\ b.min[2] <= a.max[2]

\* the indices, for a chunk size, whose cell rectangle shares a point with b
\* (sought one cell around the range Bounds::chunks yields, which holds them all)
CellsIntersecting(b, chunk_size) ==
    {j \in ((FloorDiv(b.min[1], chunk_size[1]) - 1) .. (CeilDiv(b.max[1], chunk_size[1]) + 1))
           \X ((FloorDiv(b.min[2], chunk_size[2]) - 1) .. (CeilDiv(b.max[2], chunk_size[2]) + 1)) :
        RectIntersects(to_bounds(j, chunk_size[1], chunk_size[2]), b)}

\* the first loop of generate_requirements has ended, the second has not begun
EndOfCascade == pc = "generate" /\ gen_pos = Len(stack)

\* C4: at the end of the cascade pass, for every stored index I of a producer
\* and every dependency (B, P) it declares, B's storage holds every index
\* whose cell rectangle intersects the bounds of I padded by P.
C4_DependencyCascade ==
    EndOfCascade =>
        \A a \in DOMAIN layers : \A idx \in DOMAIN layers[a].storage :
            \A k \in DOMAIN layers[a].depends_on :
                LET dep == layers[layers[a].depends_on[k].layer_id]
                IN  CellsIntersecting(dependency_bounds(layers[a], idx, k), dep.chunk_size)
                        \subseteq DOMAIN dep.storage

\* index set and payloads of a storage
Payloads(layer) == [idx \in DOMAIN layer.storage |-> layer.storage[idx].chunk]

\* C5: a tick on the client list of the tick before leaves every producer
\* with the index set and payloads it had, calls no generation function and
\* reports no eviction.
C5_RepeatedTickIdempotent ==
    (pc = "idle" /\ ticked /\ sameClients) =>
        /\ \A id \in DOMAIN layers : Payloads(layers[id]) = Payloads(before[id])
        /\ genLog = {}
        /\ \A id \in DOMAIN layers : get_deleted_chunks(id) = <<>>

\* the points get_chunk is asked for
QueryPoints == {-13, -12, -9, -4, -1, 0, 3, 8, 11, 12} \X {-12, -4, 0, 2, 8, 11, 12}

\* the active clients of the list
ActiveClients == {k \in DOMAIN layer_client : layer_client[k].active}

\* the tick just completed ran on the present client list: one active client
\* with one dependency, on a producer without dependencies that received no
\* other demand
SingleSourceOn(id, k) ==
    /\ pc = "idle" /\ ticked /\ ~clientsTouched
    /\ ActiveClients = {k}
    /\ Len(layer_client[k].dependencies) = 1
    /\ layer_client[k].dependencies[1].layer_id = id
    /\ layers[id].depends_on = <<>>
    /\ demanded[id] = direct[id]

\* C6: after a tick with a single active client at p with padding d on a
\* producer without dependencies, get_chunk(q) is present exactly when
\* floor(q / S) is among the indices Bounds::chunks yields for the padded
\* point, and is then the producer's generation function applied to that index.
C6_SingleSourceQuery ==
    \A id \in DOMAIN layers : \A k \in DOMAIN layer_client :
        SingleSourceOn(id, k) =>
            LET S == layers[id].chunk_size
                covered == chunks(add_padding(from_point(layer_client[k].center),
                                              layer_client[k].dependencies[1].padding), S)
            IN  \A q \in QueryPoints :
                    LET index == <<q[1] \div S[1], q[2] \div S[2]>>
                    IN  /\ (get_chunk(layers, id, q) # None) <=> (index \in covered)
                        /\ index \in covered =>
                              get_chunk(layers, id, q) = Layer_generate(layers, layers[id], index)

\* the scenario of test_simple_generation: point (0,0), padding (2,2), size 1
C6_Witness ==
    /\ builder = CfgSingle
    /\ SingleSourceOn("A", 1)
    /\ layer_client[1].center = <<0, 0>>
    /\ layer_client[1].dependencies[1].padding = <<8, 8>>
    /\ get_chunk(layers, "A", <<0, 0>>).at = <<0, 0>>
    /\ get_chunk(layers, "A", <<8, 8>>).at = <<2, 2>>
    /\ get_chunk(layers, "A", <<-4, -4>>).at = <<-1, -1>>
    /\ get_chunk(layers, "A", <<12, 12>>) = None

\* the number of dependencies of active clients of strategy t whose padded
\* point covers idx of layer id
TierDemand(id, idx, t) ==
    Cardinality({kd \in UNION {{<<k, d>> : d \in DOMAIN layer_client[k].dependencies} :
                                k \in ActiveClients} :
        /\ layer_client[kd[1]].strategy = t
        /\ layer_client[kd[1]].dependencies[kd[2]].layer_id = id
        /\ idx \in chunks(add_padding(from_point(layer_client[kd[1]].center),
                                      layer_client[kd[1]].dependencies[kd[2]].padding),
                          layers[id].chunk_size)})

\* check_client_usages has returned, generate_requirements has not yet begun
AfterClientUsages == pc = "cascade" /\ visited = {}

\* C11: when the demand of the active clients has been registered, each entry
\* counts, for each strategy, the client dependencies of that strategy that
\* cover it: a client's demand is counted under the client's own strategy.
C11_ClientStrategyCounted ==
    AfterClientUsages =>
        \A id \in DOMAIN layers : \A idx \in DOMAIN layers[id].storage :
            /\ layers[id].storage[idx].usage_counter.keep_alive = TierDemand(id, idx, "KeepAlive")
            /\ layers[id].storage[idx].usage_counter.slow = TierDemand(id, idx, "Slow")
            /\ layers[id].storage[idx].usage_counter.fast = TierDemand(id, idx, "Fast")

\* LayerClient::is_active
is_active(client) == client.active

\* the client list with its inactive clients removed
without_inactive(clients) == SelectSeq(clients, is_active)

\* C12: a tick on a list that holds inactive clients registers the demand,
\* and leaves the storages, usage counts and delete lists, that the tick on
\* the list without those clients does; the rest of the tick reads the list
\* no more.
C12_InactiveSkipped ==
    [][(pc = "idle" /\ pc' # "idle") =>
        LET cleared == [id \in DOMAIN layers |-> clear_usage(layers[id])]
            ls == check_client_usages(
                    [layers |-> cleared, demanded |-> NoDemand, panicked |-> FALSE],
                    without_inactive(layer_client), 1)
        IN  /\ layers' = ls.layers
            /\ demanded' = ls.demanded
            /\ delete_list' = clear_deleted(delete_list)
            /\ pc' = IF ls.panicked THEN "panicked" ELSE "cascade"]_vars

\* a tick has completed on a list holding an inactive client before an active one
C12_Witness ==
    /\ pc = "idle" /\ ticked /\ ~clientsTouched
    /\ Len(layer_client) = 2
    /\ ~is_active(layer_client[1])
    /\ is_active(layer_client[2])
    /\ \E id \in DOMAIN layers : layers[id].storage # <<>>

\* LayerClient::activate
activate(client) == [client EXCEPT !.active = TRUE]

\* the clients of the list that are inactive in this tick and were active in
\* the tick before
Deactivated ==
    {layer_client[k] : k \in {j \in DOMAIN layer_client :
        /\ ~is_active(layer_client[j])
        /\ activate(layer_client[j]) \in wasActive
        /\ activate(layer_client[j]) \notin tickActive}}

\* C13: after the first tick in which a client is inactive, every storage
\* holds exactly what the clients active in that tick demand, directly or
\* through demanded indices of dependents: nothing is left of the client.
C13_DeactivatedLeavesNothing ==
    (pc = "idle" /\ ticked /\ ~clientsTouched /\ Deactivated # {}) =>
        \A id \in DOMAIN layers : DOMAIN layers[id].storage = Demanded(id)

\* the bounds get_chunks_in is asked for
QueryBounds == {from_point(<<0, 0>>), new(<<-4, -4>>, <<4, 4>>), new(<<2, 0>>, <<10, 2>>)}

\* the pairs of index and payload of the stored chunks that have a payload
WithPayload(layer) ==
    {<<idx, layer.storage[idx].chunk>> :
        idx \in {i \in DOMAIN layer.storage : layer.storage[i].chunk # None}}

\* C17: after a completed tick get_chunk gives the payload stored at the
\* floor of point / chunk size, or None; get_all_chunks_in gives each stored
\* pair of index and payload once; get_chunks_in gives those of them whose
\* index Bounds::chunks yields for the bounds.  (Asked when regenerate has
\* returned and before the host touches the client list: the steps between
\* ticks leave the layers as the tick left them, which is C18.)
C17_QueriesReflectStorage ==
    (pc = "idle" /\ ticked /\ ~clientsTouched) =>
        \A P \in DOMAIN layers :
            LET S == layers[P].chunk_size
                st == layers[P].storage
            IN  /\ \A q \in QueryPoints :
                    LET index == <<q[1] \div S[1], q[2] \div S[2]>>
                    IN  get_chunk(layers, P, q) =
                            IF index \in DOMAIN st THEN st[index].chunk ELSE None
                /\ LET all == get_all_chunks_in(layers, P)
                   IN  /\ Range(all) = WithPayload(layers[P])
                       /\ Len(all) = Cardinality(WithPayload(layers[P]))
                /\ \A b \in QueryBounds :
                    LET found == get_chunks_in(layers, P, b)
                    IN  /\ Range(found) = {p \in WithPayload(layers[P]) : p[1] \in chunks(b, S)}
                        /\ Len(found) = Cardinality(Range(found))

\* after a tick, bounds for which get_chunks_in gives some of the chunks that
\* get_all_chunks_in gives, and not all
C17_Witness ==
    /\ pc = "idle" /\ ticked
    /\ \E P \in DOMAIN layers : \E b \in QueryBounds :
        /\ get_chunks_in(layers, P, b) # <<>>
        /\ Len(get_chunks_in(layers, P, b)) < Len(get_all_chunks_in(layers, P))
        /\ \E q \in QueryPoints : get_chunk(layers, P, q) # None
        /\ \E q \in QueryPoints : get_chunk(layers, P, q) = None

\* C18: a step that is not part of a tick (add_layer_client,
\* clear_layer_clients) changes the client list and leaves every storage,
\* with its payloads and usage counts, and every delete list as it was, so
\* that every query answers as before.
C18_OnlyTickChangesStorage ==
    [][(pc = "idle" /\ pc' = "idle") =>
        /\ layers' = layers
        /\ delete_list' = delete_list
        /\ layer_client' # layer_client
        /\ \A P \in DOMAIN layers :
            /\ get_all_chunks_in(layers', P) = get_all_chunks_in(layers, P)
            /\ get_deleted_chunks(P)' = get_deleted_chunks(P)]_vars

\* the client list was cleared and another client added after a tick; the
\* storages are as the tick left them
C18_Witness ==
    /\ pc = "idle" /\ ticked /\ clientsTouched
    /\ Len(layer_client) = 1
    /\ direct # DirectDemand(layer_client)
    /\ \A id \in DOMAIN layers : DOMAIN layers[id].storage = demanded[id]
    /\ \E id \in DOMAIN layers : layers[id].storage # <<>>

\* C14: after a tick, get_deleted_chunks of a producer holds only indices
\* that the producer stored when the tick began and stores no more: nothing
\* reported by an earlier tick is still reported.
C14_ReportResetEachTick ==
    (pc = "idle" /\ ticked) =>
        \A id \in DOMAIN layers :
            Range(get_deleted_chunks(id)) \subseteq
                (DOMAIN before[id].storage) \ (DOMAIN layers[id].storage)

\* two ticks have run on one client list; the second evicted B's entries, kept
\* by A's entries in the first, and reports none of A's, evicted by the first
C14_Witness ==
    /\ builder = CfgPair
    /\ pc = "idle" /\ ticked /\ sameClients
    /\ get_deleted_chunks("B") # <<>>
    /\ get_deleted_chunks("A") = <<>>
    /\ before["A"].storage = <<>>

\* the layers in the order the first loop of generate_requirements visited them
VisitOrder == [k \in DOMAIN stack |-> dag.nodes[stack[k]]]

\* both loops of generate_requirements have run to their end
TickDone == pc = "idle" /\ ticked

FirstLoopDone == pc = "generate" \/ TickDone

\* C21: the first loop of a tick visits each registered layer exactly once,
\* a layer before every layer it declares a dependency on; the second loop
\* calls generate on each layer exactly once, in the exact reverse of that order.
C21_VisitAndGenerateOrder ==
    /\ \A i, j \in DOMAIN stack : stack[i] = stack[j] => i = j
    /\ \A k \in DOMAIN genOrder : genOrder[k] = VisitOrder[Len(stack) - k + 1]
    /\ FirstLoopDone =>
        /\ \A id \in DOMAIN layers :
                Cardinality({k \in DOMAIN stack : VisitOrder[k] = id}) = 1
        /\ Len(stack) = Cardinality(DOMAIN layers)
        /\ \A i, j \in DOMAIN stack :
                (\E d \in DOMAIN layers[VisitOrder[i]].depends_on :
                    layers[VisitOrder[i]].depends_on[d].layer_id = VisitOrder[j]) => i < j
    /\ pc = "generate" => Len(genOrder) = Len(stack) - gen_pos
    /\ TickDone => Len(genOrder) = Len(stack)

\* the chain whose layers were added dependency first has been visited from
\* the dependent layer down and generated from the last dependency up
C21_Witness ==
    /\ builder = CfgChain
    /\ TickDone
    /\ VisitOrder = <<"A", "B", "C">>
    /\ genOrder = <<"C", "B", "A">>

\* ensure_generated has acted on layer id in the step: an entry is new or
\* the usage counter of an entry has grown
EnsureGeneratedOn(id) ==
    \E idx \in DOMAIN layers'[id].storage :
        \/ idx \notin DOMAIN layers[id].storage
        \/ layers'[id].storage[idx].usage_counter.fast
                > layers[id].storage[idx].usage_counter.fast

\* C22: within a tick no ensure_generated is made on a layer once the first
\* loop has visited it (computed its requires()): every step that registers
\* demand on a layer is taken while the layer is still to be visited.
C22_DemandCompleteBeforeCascade ==
    [][\A id \in DOMAIN layers : EnsureGeneratedOn(id) => id \notin Range(VisitOrder')]_vars

\* the last layer of the diamond, on which no client asks anything, has
\* received demand from the cascade of both its dependents before its visit
C22_Witness ==
    /\ builder = CfgDiamond
    /\ EndOfCascade
    /\ direct["D"] = {}
    /\ demanded["D"] # {}
    /\ demanded["B"] # {}
    /\ demanded["C"] # {}
    /\ VisitOrder[4] = "D"

\* one step of the life of the entries of layer id
EntrySteps(id) ==
    LET was == layers[id].storage
        now == layers'[id].storage
    IN  \* generated stays generated, with the same payload, while the entry stays
        /\ \A idx \in (DOMAIN was) \cap (DOMAIN now) :
                was[idx].chunk # None => now[idx].chunk = was[idx].chunk
        \* an entry leaves in the generate of its layer only, its usage empty
        /\ \A idx \in (DOMAIN was) \ (DOMAIN now) :
                /\ pc = "generate"
                /\ genOrder' = Append(genOrder, id)
                /\ is_empty(was[idx].usage_counter)
        \* an entry comes without payload
        /\ \A idx \in (DOMAIN now) \ (DOMAIN was) : now[idx].chunk = None
        \* a payload comes from a call of the generation function in this step
        /\ \A idx \in DOMAIN now :
                (now[idx].chunk # None /\ (idx \notin DOMAIN was \/ was[idx].chunk = None)) =>
                    /\ <<id, idx>> \in genLog' \ genLog
                    /\ now[idx].chunk = Layer_generate(layers, layers[id], idx)

\* the indices of layer id that the tick before evicted and this tick holds again
Recreated(id) == Range(lastDeleted[id]) \cap DOMAIN layers[id].storage

\* C23: an entry is created without payload, gets its payload from the
\* generation function, keeps it while it stays, and is removed only by
\* generate when its usage is empty; an index evicted by one tick and demanded
\* by the next is generated again, its payload that of the generation function.
C23_EntryLifecycle ==
    /\ [][\A id \in DOMAIN layers : EntrySteps(id)]_vars
    /\ [](TickDone /\ lastDeleted # <<>> =>
            \A id \in DOMAIN layers : \A idx \in Recreated(id) :
                /\ <<id, idx>> \in genLog
                /\ layers[id].storage[idx].chunk # None)

\* an index of the dependency of the pair was evicted by the tick before and
\* has been generated again by this one
C23_Witness ==
    /\ builder = CfgPair
    /\ TickDone
    /\ lastDeleted # <<>>
    /\ Recreated("B") # {}
    /\ \A idx \in Recreated("B") : layers["B"].storage[idx].chunk # None

\* the positions of a Vec<Dependency>: no layer and no client of the
\* configurations declares more than two dependencies
DepSlots == 1 .. 2

\* the requirements of the active clients of this tick that cover idx of layer id
ClientRegions(id, idx) ==
    {<<k, d>> \in (DOMAIN layer_client) \X DepSlots :
        /\ layer_client[k].active
        /\ d \in DOMAIN layer_client[k].dependencies
        /\ layer_client[k].dependencies[d].layer_id = id
        /\ idx \in chunks(add_padding(from_point(layer_client[k].center),
                                      layer_client[k].dependencies[d].padding),
                          layers[id].chunk_size)}

\* the triples of a layer x, a stored index j of x and a dependency k of x on
\* layer id whose padded bounds cover idx
CascadeRegions(id, idx) ==
    UNION {{<<x, j, k>> : j \in {i \in DOMAIN layers[x].storage :
                                    idx \in chunks(dependency_bounds(layers[x], i, k),
                                                   layers[id].chunk_size)}} :
           <<x, k>> \in {p \in (DOMAIN layers) \X DepSlots :
                            /\ p[2] \in DOMAIN layers[p[1]].depends_on
                            /\ layers[p[1]].depends_on[p[2]].layer_id = id}}

UsageTotal(u) == u.keep_alive + u.slow + u.fast

\* C25: when clear_usage, check_client_usages and the first loop of a tick
\* have run, the count of every entry is the number of regions registered in
\* this tick that cover its index: one per requirement of an active client
\* and one per stored index and dependency of a dependent layer.
C25_UsageCountsThisTickOnly ==
    EndOfCascade =>
        \A id \in DOMAIN layers : \A idx \in DOMAIN layers[id].storage :
            UsageTotal(layers[id].storage[idx].usage_counter)
                = Cardinality(ClientRegions(id, idx)) + Cardinality(CascadeRegions(id, idx))

\* a second tick on the same clients has counted an entry that the tick
\* before had counted too, and has counted it twice
C25_Witness ==
    /\ EndOfCascade
    /\ sameClients
    /\ \E id \in DOMAIN layers : \E idx \in DOMAIN layers[id].storage :
        /\ idx \in DOMAIN before[id].storage
        /\ UsageTotal(before[id].storage[idx].usage_counter) = 2
        /\ UsageTotal(layers[id].storage[idx].usage_counter) = 2

\* C32: when a tick has completed, every entry of every layer has a non-empty
\* usage counter and a payload, and was demanded in that tick: no entry
\* without usage and no entry without payload is left.
C32_SurvivorsUsedAndGenerated ==
    TickDone =>
        \A id \in DOMAIN layers : \A idx \in DOMAIN layers[id].storage :
            /\ ~is_empty(layers[id].storage[idx].usage_counter)
            /\ layers[id].storage[idx].chunk # None
            /\ idx \in demanded[id]

\* a tick whose only active client is a Slow one has evicted entries of the
\* dependent layer of the pair and has left entries in its dependency
C32_Witness ==
    /\ builder = CfgPair
    /\ TickDone
    /\ \A c \in tickActive : c.strategy = "Slow"
    /\ tickActive # {}
    /\ delete_list["A"] # <<>>
    /\ layers["A"].storage = <<>>
    /\ layers["B"].storage # <<>>

\* the indices of layer id that held a payload when the tick started
ResidentAtStart(id) ==
    {idx \in DOMAIN before[id].storage : before[id].storage[idx].chunk # None}

\* C33: the generation function is not called for an index that entered the
\* tick with a payload, and such an index, if it is still stored, holds the
\* payload it entered with: one call per residency, whatever happens to the
\* entries of the dependencies.
C33_GeneratedOncePerResidency ==
    pc \in {"idle", "cascade", "generate"} =>
        \A id \in DOMAIN layers : \A idx \in ResidentAtStart(id) :
            /\ <<id, idx>> \notin genLog
            /\ idx \in DOMAIN layers[id].storage =>
                    layers[id].storage[idx].chunk = before[id].storage[idx].chunk

\* an index of the dependent layer of the pair has stayed through a tick
\* that evicted entries of its dependency
C33_Witness ==
    /\ builder = CfgPair
    /\ TickDone
    /\ ResidentAtStart("A") \cap DOMAIN layers["A"].storage # {}
    /\ delete_list["B"] # <<>>

(***************************************************************************)
(* Ticks that keep coming                                                  *)
(***************************************************************************)
\* what a step of the tick does to the position of the tick, without the work
\* on the storages: regenerate is entered, the first loop of
\* generate_requirements takes a node from Topo, the second loop takes the
\* next node of stack.iter().rev().  A step of Next that changes pc from
\* "idle", that changes visited in "cascade", or that changes gen_pos in
\* "generate" is a step of RegenerateStart, CascadeStep or GenerateStep, and
\* each of these is enabled exactly when its position step is.
TickCalled == pc = "idle" /\ pc' \in {"cascade", "panicked"}

CascadeTurn ==
    /\ pc = "cascade"
    /\ \E node \in DOMAIN dag.nodes :
        /\ node \notin visited
        /\ parents(dag.edges, node) \subseteq visited
        /\ visited' = visited \cup {node}

GenerateTurn == pc = "generate" /\ gen_pos > 0 /\ gen_pos' = gen_pos - 1

\* the host calls regenerate again and again, and a call that has started
\* runs its two loops to the end: the single thread that drives a tick takes
\* every turn of a loop that has one left
SpecTicking ==
    /\ Init
    /\ [][Next]_vars
    /\ WF_pc(TickCalled)
    /\ WF_visited(CascadeTurn)
    /\ WF_gen_pos(GenerateTurn)

\* the number of ticks without demand after which the storage of layer id is
\* empty, when the layers are ls: 0 when no layer that reaches id through
\* depends_on (id included) stores an index, otherwise 1 + the length of the
\* longest such path from a layer that stores one.  (requires cascades from
\* every stored index, generate evicts after the cascade.)
RECURSIVE EvictionTick(_, _)
EvictionTick(ls, id) ==
    LET dependents == {d \in DOMAIN ls :
                          \E k \in DOMAIN ls[d].depends_on : ls[d].depends_on[k].layer_id = id}
        own == IF ls[id].storage = <<>> THEN 0 ELSE 1
        through == {EvictionTick(ls, d) + 1 : d \in {e \in dependents : EvictionTick(ls, e) > 0}}
    IN  CHOOSE n \in {own} \cup through : \A m \in {own} \cup through : m <= n

NoActiveClient == \A k \in DOMAIN layer_client : ~layer_client[k].active

AllEmpty == \A id \in DOMAIN layers : layers[id].storage = <<>>

\* C34: a layer that active clients name holds entries when the tick is done.
\* A tick without an active client empties exactly the layers whose
\* EvictionTick was 1 when it started and lowers every other EvictionTick by
\* one, so a layer is emptied in tick k + 1 after the demand went, k being
\* the longest dependency path to it from a layer that held entries, never
\* before, and an empty manager stays empty.  When from some point on no
\* client is active and ticks keep coming, from some point on every storage
\* is empty.
C34_DrainsOneLevelPerTick ==
    /\ [](TickDone =>
            \A id \in DOMAIN layers : direct[id] # {} => layers[id].storage # <<>>)
    /\ []((TickDone /\ tickActive = {}) =>
            \A id \in DOMAIN layers :
                /\ (layers[id].storage = <<>>) <=> (EvictionTick(before, id) <= 1)
                /\ EvictionTick(layers, id) =
                        IF EvictionTick(before, id) = 0 THEN 0
                        ELSE EvictionTick(before, id) - 1)
    /\ (<>[]NoActiveClient => <>[]AllEmpty)

\* the second tick without demand on the chain has ended: the two dependent
\* layers are empty, the last dependency still holds entries
C34_Witness ==
    /\ builder = CfgChain
    /\ TickDone
    /\ tickActive = {}
    /\ wasActive = {}
    /\ before["A"].storage = <<>>
    /\ before["B"].storage # <<>>
    /\ layers["B"].storage = <<>>
    /\ layers["C"].storage # <<>>

(***************************************************************************)
(* LayersManagerBuilder::build on arbitrary declarations                   *)
(***************************************************************************)
\* the dependencies a layer may declare: the three layers added and one that
\* is never added
DepTargets == {"A", "B", "C", "X"}

DepsOn(S) == [k \in 1 .. Cardinality(S) |-> Dependency(SetToSeq(S)[k], <<0, 0>>)]

BuildInputs ==
    {<<LayerConfig("A", <<4, 4>>, DepsOn(sa)),
       LayerConfig("B", <<4, 4>>, DepsOn(sb)),
       LayerConfig("C", <<8, 8>>, DepsOn(sc))>> :
        sa \in SUBSET DepTargets, sb \in SUBSET DepTargets, sc \in SUBSET DepTargets}

InitBuild ==
    /\ builder \in BuildInputs
    /\ pc = "builder"
    /\ layers = <<>>
    /\ dag = [nodes |-> <<>>, edges |-> {}]
    /\ layer_client = <<>>
    /\ delete_list = <<>>
    /\ visited = {}
    /\ stack = <<>>
    /\ gen_pos = 0
    /\ ticked = FALSE
    /\ demanded = <<>>
    /\ genLog = {}
    /\ before = <<>>
    /\ direct = <<>>
    /\ clientsTouched = FALSE
    /\ sameClients = FALSE
    /\ tickActive = {}
    /\ wasActive = {}
    /\ genOrder = <<>>
    /\ lastDeleted = <<>>
    /\ locks = {}
    /\ lookups = <<>>
    /\ poisoned = {}
    /\ arg = <<>>
    /\ res = <<>>

\* build: panics on an unknown dependency or on a cycle, else returns the manager
Build ==
    /\ pc = "builder"
    /\ IF build_panics(builder)
       THEN /\ pc' = "panicked"
            /\ UNCHANGED <<layers, dag, delete_list, demanded, before, direct>>
       ELSE /\ pc' = "idle"
            /\ layers' = build_layers(builder)
            /\ dag' = build_dag(builder)
            /\ delete_list' = build_delete_list(builder)
            /\ demanded' = [id \in DOMAIN build_layers(builder) |-> {}]
            /\ before' = build_layers(builder)
            /\ direct' = [id \in DOMAIN build_layers(builder) |-> {}]
    /\ UNCHANGED <<builder, layer_client, visited, stack, gen_pos, ticked, genLog,
                   clientsTouched, sameClients,
                   tickActive, wasActive, genOrder, lastDeleted, locks, lookups, poisoned, arg, res>>

SpecBuild == InitBuild /\ [][Build]_vars

\* layer a declares a dependency on layer b
Declares(list, a, b) ==
    \E k \in DOMAIN list :
        /\ list[k].layer_id = a
        /\ \E d \in DOMAIN list[k].depends_on : list[k].depends_on[d].layer_id = b

\* a depends on b through at most n declarations
RECURSIVE DependsWithin(_, _, _, _)
DependsWithin(list, a, b, n) ==
    /\ n > 0
    /\ \/ Declares(list, a, b)
       \/ \E c \in DepTargets : Declares(list, a, c) /\ DependsWithin(list, c, b, n - 1)

SelfDependent(list) == \E a \in DepTargets : DependsWithin(list, a, a, Len(list))

AllRegistered(list) ==
    \A k \in DOMAIN list : \A d \in DOMAIN list[k].depends_on :
        \E j \in DOMAIN list : list[j].layer_id = list[k].depends_on[d].layer_id

\* C7: build fails whenever some producer depends on itself directly or
\* transitively, and returns a manager holding every layer for every acyclic
\* set of dependencies among the added producers.
C7_BuildRejectsCycles ==
    pc # "builder" =>
        /\ SelfDependent(builder) => pc = "panicked"
        /\ (AllRegistered(builder) /\ ~SelfDependent(builder)) =>
              /\ pc = "idle"
              /\ DOMAIN layers = {builder[k].layer_id : k \in DOMAIN builder}

\* build has failed on a cycle through three producers none of which names itself
C7_Witness ==
    /\ pc = "panicked"
    /\ AllRegistered(builder)
    /\ Declares(builder, "A", "B") /\ Declares(builder, "B", "C") /\ Declares(builder, "C", "A")
    /\ \A a \in DepTargets : ~Declares(builder, a, a)

(***************************************************************************)
(* Managers whose tick may abort: a layer that was never added is named,   *)
(* or the generation function of a layer panics                            *)
(***************************************************************************)
InitAbort ==
    /\ builder \in {CfgLone, CfgDangling, CfgChain}
    /\ pc = "builder"
    /\ layers = <<>>
    /\ dag = [nodes |-> <<>>, edges |-> {}]
    /\ layer_client = <<>>
    /\ delete_list = <<>>
    /\ visited = {}
    /\ stack = <<>>
    /\ gen_pos = 0
    /\ ticked = FALSE
    /\ demanded = <<>>
    /\ genLog = {}
    /\ before = <<>>
    /\ direct = <<>>
    /\ clientsTouched = FALSE
    /\ sameClients = FALSE
    /\ tickActive = {}
    /\ wasActive = {}
    /\ genOrder = <<>>
    /\ lastDeleted = <<>>
    /\ locks = {}
    /\ lookups = <<>>
    /\ poisoned = {}
    /\ arg = <<>>
    /\ res = <<>>

\* LayerConfig::generate when the generation function panics at the n-th
\* index it is called for: the chunks iterated before it are generated, no
\* index is removed, generate_requirements is left at once and the unwinding
\* drops the guard of the layer, which poisons its Mutex
GeneratePanics ==
    /\ pc = "generate"
    /\ gen_pos > 0
    /\ LET layer_id == dag.nodes[rev_nth(stack, gen_pos)]
           layer == layers[layer_id]
           order == SetToSeq(to_generate(layer))
       IN  \E n \in DOMAIN order :
            LET done == {order[i] : i \in 1 .. (n - 1)}
            IN  /\ layers' = [layers EXCEPT ![layer_id].storage =
                                [i \in DOMAIN layer.storage |->
                                    IF i \in done
                                    THEN [layer.storage[i] EXCEPT
                                            !.chunk = Layer_generate(layers, layer, i)]
                                    ELSE layer.storage[i]]]
                /\ genLog' = genLog \cup {<<layer_id, i>> : i \in done \cup {order[n]}}
                /\ genOrder' = Append(genOrder, layer_id)
    /\ pc' = "panicked"
    /\ poisoned' = poisoned \cup {dag.nodes[rev_nth(stack, gen_pos)]}
    /\ UNCHANGED <<builder, dag, layer_client, delete_list, visited, stack, gen_pos,
                   ticked, demanded, before, direct, clientsTouched, sameClients,
                   tickActive, wasActive, lastDeleted, locks, lookups, arg, res>>

\* the host has caught the unwinding and calls regenerate again
RegenerateAgain == pc = "panicked" /\ poisoned # {} /\ regenerate_entered

NextAbort ==
    \/ Build
    \/ AddLayerClient
    \/ ClearLayerClients
    \/ RegenerateStart
    \/ CascadeStep
    \/ GenerateStep
    \/ GeneratePanics
    \/ RegenerateAgain

SpecAbort == InitAbort /\ [][NextAbort]_vars

\* the layer ids added to the builder
Registered(list) == {list[k].layer_id : k \in DOMAIN list}

\* the dependencies of the active clients name a layer that was never added
ActiveClientNamesUnregistered ==
    \E k \in ActiveClients : \E d \in DOMAIN layer_client[k].dependencies :
        layer_client[k].dependencies[d].layer_id \notin Registered(builder)

\* C15: build returns no manager when an added layer declares a dependency
\* on a layer never added; a tick gets no further than check_client_usages
\* when an active client names a layer never added; and no storage, demand
\* or delete list exists but for the layers added.
C15_UnregisteredIsFatal ==
    /\ (pc # "builder" /\ ~AllRegistered(builder)) => (pc = "panicked" /\ layers = <<>>)
    /\ (pc \in {"cascade", "generate"} \/ (pc = "idle" /\ ticked /\ ~clientsTouched)) =>
            ~ActiveClientNamesUnregistered
    /\ (pc = "panicked" /\ ActiveClientNamesUnregistered) => (visited = {} /\ genLog = {})
    /\ DOMAIN layers \subseteq Registered(builder)
    /\ DOMAIN demanded \subseteq Registered(builder)
    /\ DOMAIN delete_list \subseteq Registered(builder)

\* a tick has aborted in check_client_usages: the second dependency of an
\* active client names a layer never added, the first was registered already
C15_Witness ==
    /\ builder = CfgLone
    /\ pc = "panicked"
    /\ Len(layer_client) = 1
    /\ Len(layer_client[1].dependencies) = 2
    /\ ActiveClientNamesUnregistered
    /\ layers["D"].storage # <<>>

\* C19: a tick that does not complete leaves every storage, with its payloads
\* and usage counts, as it was when the tick began, and the delete lists as
\* they were.
C19_AbortedTickChangesNothing ==
    [][(pc \in {"idle", "cascade", "generate"} /\ pc' = "panicked") =>
        /\ layers' = before'
        /\ pc = "idle" => delete_list' = delete_list]_vars

\* the layer LayerConfig::generate is running for
Generating == dag.nodes[rev_nth(stack, gen_pos)]

lookup_layers_and_own(layer) ==
    [k \in DOMAIN layer.depends_on |-> layer.depends_on[k].layer_id] \o <<layer.layer_id>>

lookup_layers(layer) == [k \in DOMAIN layer.depends_on |-> layer.depends_on[k].layer_id]

\* stack.iter().rev(), one turn begins: the layer is locked and
\* LayerConfig::generate is entered; its generation function, if it is called
\* for some index, looks up each declared dependency
GenerateLock ==
    /\ pc = "generate"
    /\ gen_pos > 0
    /\ LET layer == layers[dag.nodes[rev_nth(stack, gen_pos)]]
       IN  /\ locks' = locks \cup {layer.layer_id}
           /\ lookups' = IF to_generate(layer) = {} THEN <<>> ELSE lookup_layers(layer)
    /\ pc' = "generating"
    /\ UNCHANGED <<builder, layers, dag, layer_client, delete_list, visited, stack,
                   gen_pos, ticked, demanded, genLog, before, direct, clientsTouched,
                   sameClients, tickActive, wasActive, genOrder, lastDeleted, poisoned, arg, res>>

LookupLock_reentrant ==
    /\ pc = "generating"
    /\ lookups # <<>>
    /\ locks' = locks \cup {Head(lookups)}
    /\ pc' = "lookup"
    /\ UNCHANGED <<builder, layers, dag, layer_client, delete_list, visited, stack,
                   gen_pos, ticked, demanded, genLog, before, direct, clientsTouched,
                   sameClients, tickActive, wasActive, genOrder, lastDeleted, lookups,
                   poisoned, arg, res>>

\* LayerLookupChunk::get_chunk_from_idx, entered from the generation
\* function: the layer looked in is locked
LookupLock ==
    /\ pc = "generating"
    /\ lookups # <<>>
    /\ Head(lookups) \notin locks
    /\ locks' = locks \cup {Head(lookups)}
    /\ pc' = "lookup"
    /\ UNCHANGED <<builder, layers, dag, layer_client, delete_list, visited, stack,
                   gen_pos, ticked, demanded, genLog, before, direct, clientsTouched,
                   sameClients, tickActive, wasActive, genOrder, lastDeleted, lookups, poisoned, arg, res>>

\* get_chunk_from_idx returns: its guard is dropped
LookupUnlock ==
    /\ pc = "lookup"
    /\ locks' = locks \ {Head(lookups)}
    /\ lookups' = Tail(lookups)
    /\ pc' = "generating"
    /\ UNCHANGED <<builder, layers, dag, layer_client, delete_list, visited, stack,
                   gen_pos, ticked, demanded, genLog, before, direct, clientsTouched,
                   sameClients, tickActive, wasActive, genOrder, lastDeleted, poisoned, arg, res>>

\* LayerConfig::generate returns, the delete list is extended and the guard
\* of the layer is dropped at the end of the turn
GenerateUnlock ==
    /\ pc = "generating"
    /\ lookups = <<>>
    /\ generate_turn
    /\ locks' = {}
    /\ lookups' = <<>>

NextLocks ==
    \/ AddLayerClient
    \/ ClearLayerClients
    \/ RegenerateStart
    \/ CascadeStep
    \/ GenerateLock
    \/ LookupLock
    \/ LookupUnlock
    \/ GenerateUnlock

SpecLocks == Init /\ [][NextLocks]_vars

\* the managers whose ticks are followed lock by lock to their end: no
\* dependency, one dependency, and two dependencies that share a dependency
\* (the chain is the path A, B, D of the diamond)
LockConfigs == {CfgSingle, CfgPair, CfgDiamond}

InitLocks == Init /\ builder \in LockConfigs

\* LayerConfig::generate returns to the second loop, as far as the position
\* of the tick goes (a step of NextLocks that changes gen_pos is a step of
\* GenerateUnlock)
GenerateReturns == pc = "generating" /\ lookups = <<>> /\ gen_pos' = gen_pos - 1

\* the single thread that drives the tick takes the next step whenever there
\* is one: a Mutex that is free is locked at once, a generation function
\* that was entered returns, a guard that goes out of scope is dropped
SpecLocksTicking ==
    /\ InitLocks
    /\ [][NextLocks]_vars
    /\ WF_<<pc, visited>>(
            \/ CascadeTurn /\ pc' \in {"cascade", "generate"}
            \/ GenerateLock
            \/ LookupLock
            \/ LookupUnlock
            \/ GenerateReturns /\ pc' \in {"generate", "idle"} /\ visited' = visited)

\* C20: at no point of a tick are the Mutexes of two layers locked.
C20_AtMostOneLock == Cardinality(locks) <= 1

\* C35: a Mutex is locked only while LayerConfig::generate runs, and a tick
\* that has begun returns with no Mutex locked: every Mutex locked during
\* the tick is unlocked again and the call ends.  The generation functions
\* look in the storages of the layers their own layer declares as
\* dependencies, never in their own.
C35_TickReturnsLocksReleased ==
    /\ [](locks # {} => pc \in {"generating", "lookup"})
    /\ (pc # "idle") ~> (pc = "idle" /\ locks = {})

\* a tick on the diamond has returned in which the generation function of
\* the layer with two dependencies was called
C35_Witness ==
    /\ builder = CfgDiamond
    /\ TickDone
    /\ locks = {}
    /\ \E p \in genLog : p[1] = "A"
    /\ \E p \in genLog : p[1] = "D"

(***************************************************************************)
(* A generation function that looks in the storage of its own layer        *)
(***************************************************************************)
\* GenerateLock for a layer whose generation function, after the declared
\* dependencies, looks up a chunk of its own layer (any layer may have such
\* a function: SpecOwnLookup takes GenerateLock or GenerateLockOwn)
GenerateLockOwn ==
    /\ pc = "generate"
    /\ gen_pos > 0
    /\ LET layer == layers[dag.nodes[rev_nth(stack, gen_pos)]]
       IN  /\ locks' = locks \cup {layer.layer_id}
           /\ lookups' = IF to_generate(layer) = {} THEN <<>> ELSE lookup_layers_and_own(layer)
    /\ pc' = "generating"
    /\ UNCHANGED <<builder, layers, dag, layer_client, delete_list, visited, stack,
                   gen_pos, ticked, demanded, genLog, before, direct, clientsTouched,
                   sameClients, tickActive, wasActive, genOrder, lastDeleted, poisoned, arg, res>>

\* the Mutex of std locked by the thread that holds it: lock() does not
\* return; it blocks for ever (no step is taken) or it panics, and the
\* unwinding drops the guard generate_requirements holds and poisons the Mutex
LookupRelock ==
    /\ pc = "generating"
    /\ lookups # <<>>
    /\ Head(lookups) \in locks
    /\ pc' = "panicked"
    /\ poisoned' = poisoned \cup locks
    /\ locks' = {}
    /\ UNCHANGED <<builder, layers, dag, layer_client, delete_list, visited, stack,
                   gen_pos, ticked, demanded, genLog, before, direct, clientsTouched,
                   sameClients, tickActive, wasActive, genOrder, lastDeleted, lookups, arg, res>>

NextOwnLookup ==
    \/ AddLayerClient
    \/ ClearLayerClients
    \/ RegenerateStart
    \/ CascadeStep
    \/ GenerateLock
    \/ GenerateLockOwn
    \/ LookupLock
    \/ LookupUnlock
    \/ LookupRelock
    \/ GenerateUnlock

SpecOwnLookup == InitLocks /\ [][NextOwnLookup]_vars

\* the generation function has come to the lookup in its own layer
OwnLookupPending ==
    pc = "generating" /\ lookups # <<>> /\ Head(lookups) = Generating

\* C36: while generate runs for a layer the Mutex of that layer is locked;
\* no lookup ever locks the layer generate is running for; from the lookup
\* of a generation function in its own layer the thread gets no further
\* (nothing changes) unless lock() panics; and once that lookup is reached
\* the tick is never done.
C36_OwnLookupNeverReturns ==
    /\ [](pc \in {"generating", "lookup"} => Generating \in locks)
    /\ [](pc = "lookup" => Head(lookups) # Generating)
    /\ [][OwnLookupPending =>
            \/ pc' = "panicked" /\ layers' = layers /\ delete_list' = delete_list
            \/ UNCHANGED <<pc, layers, delete_list, locks, lookups, gen_pos>>]_vars
    /\ [](OwnLookupPending => [](pc # "idle"))

\* the generation function of the dependent layer of the pair has looked in
\* its dependency and has come to the lookup in its own layer
C36_Witness ==
    /\ builder = CfgPair
    /\ OwnLookupPending
    /\ lookups = <<"A">>
    /\ locks = {"A"}
    /\ ticked

(***************************************************************************)
(* The pure functions of bounds.rs, usage.rs and layer.rs on drawn         *)
(* arguments                                                               *)
(***************************************************************************)
\* bounds with min <= max on each axis, and chunk sizes
AxisPoints == {-8, -5, -4, 0, 2, 3, 4, 8}

AxisRanges == {r \in AxisPoints \X AxisPoints : r[1] <= r[2]}

BoundsInputs ==
    {new(<<rx[1], ry[1]>>, <<rx[2], ry[2]>>) :
        rx \in AxisRanges, ry \in {<<0, 0>>, <<-4, 4>>, <<1, 6>>}}

SizeInputs == {<<4, 4>>, <<8, 4>>, <<2, 6>>, <<20, 20>>}

\* indices near the origin for every size; indices beyond 2^23 for the sizes
\* that are powers of two
SmallIdx == {-3, -1, 0, 1, 2}

LargeIdxInputs ==
    {<<Pow2(22) + 1, 1>>, <<Pow2(23), -2>>, <<Pow2(23) + 1, 0>>, <<-(Pow2(23) + 1), 5>>}

Pow2Sizes == {<<4, 4>>, <<2, 8>>}

\* layers as ticks leave them: some indices stored, with or without payload,
\* used in this tick or not
StoredIdx == {<<0, 0>>, <<1, 0>>, <<2, 1>>}

WrapperInputs ==
    {[chunk |-> c, usage_counter |-> [keep_alive |-> 0, slow |-> 0, fast |-> f]] :
        c \in {None, [of |-> "A", at |-> <<0, 0>>, seen |-> {}]}, f \in {0, 1}}

StorageInputs == UNION {[D -> WrapperInputs] : D \in SUBSET StoredIdx}

\* entries counted under every combination of tiers, with or without payload
TieredWrapperInputs ==
    {[chunk |-> c, usage_counter |-> [keep_alive |-> k, slow |-> sl, fast |-> f]] :
        c \in {None, [of |-> "A", at |-> <<5, 5>>, seen |-> {}]},
        k \in {0, 1}, sl \in {0, 2}, f \in {0, 1}}

TieredStorageInputs == UNION {[D -> TieredWrapperInputs] : D \in SUBSET StoredIdx}

\* a layer and the dependency its generation function looks in
GenerateInputs ==
    {[A |-> [LayerConfig("A", <<4, 4>>, <<Dependency("B", <<0, 0>>)>>) EXCEPT !.storage = st],
      B |-> [LayerConfig("B", <<8, 8>>, <<>>) EXCEPT !.storage =
                (<<0, 0>> :> [chunk |-> [of |-> "B", at |-> <<0, 0>>, seen |-> {}],
                              usage_counter |-> UsageCounter_new])]] :
        st \in TieredStorageInputs}

\* the dependencies a layer declares: none, one, two, the same one twice
DependsOnInputs ==
    {<<>>,
     <<Dependency("B", <<4, 4>>)>>,
     <<Dependency("B", <<0, 0>>), Dependency("C", <<4, 0>>)>>,
     <<Dependency("B", <<4, 4>>), Dependency("B", <<4, 4>>)>>}

\* rectangles with min <= max: overlapping at a corner, nested, crossing,
\* touching, apart, and degenerate
RectRanges == {<<0, 4>>, <<2, 6>>, <<1, 3>>, <<-2, 8>>, <<5, 8>>, <<4, 4>>}

RectInputs == {new(<<rx[1], ry[1]>>, <<rx[2], ry[2]>>) : rx \in RectRanges, ry \in RectRanges}

\* points and paddings of either sign, and well-formed bounds (min <= max)
PointInputs == {<<0, 0>>, <<4, 2>>, <<-3, 8>>}

PaddingInputs == {<<0, 0>>, <<4, 4>>, <<-1, 0>>, <<-6, -6>>}

WellFormedInputs == {from_point(<<0, 0>>), new(<<0, 0>>, <<4, 4>>), new(<<-8, 2>>, <<3, 2>>)}

\* the calls that construct a Bounds
ConstructInputs ==
    {[op |-> "construct", fn |-> "new", min |-> p, max |-> q] :
        p \in PointInputs, q \in PointInputs}
    \cup {[op |-> "construct", fn |-> "from_point", point |-> p] : p \in PointInputs}
    \cup {[op |-> "construct", fn |-> f, bounds |-> b, padding |-> pad] :
            f \in {"add_padding", "expand"}, b \in WellFormedInputs, pad \in PaddingInputs}
    \cup {[op |-> "construct", fn |-> "add_point", bounds |-> b, point |-> p] :
            b \in WellFormedInputs, p \in PointInputs}
    \cup {[op |-> "construct", fn |-> "to_bounds", idx |-> i, chunk_size |-> sz] :
            i \in SmallIdx \X SmallIdx, sz \in SizeInputs}

\* usage counters with every combination of zero and non-zero counts
CounterInputs ==
    {[keep_alive |-> k, slow |-> sl, fast |-> f] :
        k \in {0, 1, 3}, sl \in {0, 1, 2}, f \in {0, 1, 5}}

PureInputs ==
    {[op |-> "chunks", bounds |-> b, chunk_size |-> sz] :
        b \in BoundsInputs, sz \in SizeInputs}
    \cup {[op |-> "center", idx |-> i, chunk_size |-> sz] :
            i \in SmallIdx \X SmallIdx, sz \in SizeInputs}
    \cup {[op |-> "center", idx |-> i, chunk_size |-> sz] :
            i \in LargeIdxInputs, sz \in Pow2Sizes}
    \cup {[op |-> "lookup",
           layers |-> [A |-> [LayerConfig("A", <<4, 4>>, <<>>) EXCEPT !.storage = st],
                       B |-> LayerConfig("B", <<8, 8>>, <<>>)],
           L |-> l, layer_id |-> "A", pos |-> q] :
            st \in StorageInputs, l \in {"A", "B"}, q \in {<<0, 0>>, <<4, 2>>, <<9, 5>>}}
    \cup {[op |-> "generate", layers |-> ls] : ls \in GenerateInputs}
    \cup {[op |-> "requires",
           layer |-> [LayerConfig("A", sz, deps) EXCEPT !.storage = st]] :
            st \in StorageInputs, sz \in {<<4, 4>>, <<8, 4>>}, deps \in DependsOnInputs}
    \cup {[op |-> "intersects", a |-> a, b |-> b] : a \in RectInputs, b \in RectInputs}
    \cup ConstructInputs
    \cup {[op |-> "best_usage", u |-> u] : u \in CounterInputs}
    \cup {[op |-> "usage_op", fn |-> f, u |-> u, usage |-> t, overflow_checks |-> c] :
            f \in {"increment", "decrement"}, u \in CounterInputs,
            t \in UsageStrategy, c \in BOOLEAN}
    \cup {[op |-> "ensure_generated",
           layer |-> [LayerConfig("A", <<4, 4>>, <<>>) EXCEPT !.storage = st],
           bounds |-> b] :
            st \in StorageInputs,
            b \in {from_point(<<0, 0>>), new(<<0, 0>>, <<4, 4>>), new(<<6, 2>>, <<7, 3>>)}}

InitPure ==
    /\ arg \in PureInputs
    /\ res = <<>>
    /\ pc = "pure"
    /\ builder = <<>>
    /\ layers = <<>>
    /\ dag = [nodes |-> <<>>, edges |-> {}]
    /\ layer_client = <<>>
    /\ delete_list = <<>>
    /\ visited = {}
    /\ stack = <<>>
    /\ gen_pos = 0
    /\ ticked = FALSE
    /\ demanded = <<>>
    /\ genLog = {}
    /\ before = <<>>
    /\ direct = <<>>
    /\ clientsTouched = FALSE
    /\ sameClients = FALSE
    /\ tickActive = {}
    /\ wasActive = {}
    /\ genOrder = <<>>
    /\ lastDeleted = <<>>
    /\ locks = {}
    /\ lookups = <<>>
    /\ poisoned = {}

\* Bounds::chunks(bounds, chunk_size), collected
ApplyChunks ==
    /\ pc = "pure" /\ res = <<>> /\ arg.op = "chunks"
    /\ res' = <<chunks_iter(arg.bounds, arg.chunk_size)>>
    /\ UNCHANGED <<managerVars, arg>>

\* ChunkIdx::from_point(idx.center(chunk_size), chunk_size.x, chunk_size.y)
ApplyCenter ==
    /\ pc = "pure" /\ res = <<>> /\ arg.op = "center"
    /\ res' = <<idx_from_point(center(arg.idx, arg.chunk_size),
                               arg.chunk_size[1], arg.chunk_size[2])>>
    /\ UNCHANGED <<managerVars, arg>>

\* LayerConfig::ensure_generated(bounds), once and twice
ApplyEnsureGenerated ==
    /\ pc = "pure" /\ res = <<>> /\ arg.op = "ensure_generated"
    /\ res' = <<[once |-> ensure_generated(arg.layer, arg.bounds),
                 twice |-> ensure_generated(ensure_generated(arg.layer, arg.bounds),
                                            arg.bounds)]>>
    /\ UNCHANGED <<managerVars, arg>>

\* LayerLookupChunk::get_chunk::<L>(layer_id, pos), and the layers after it
ApplyLookup ==
    /\ pc = "pure" /\ res = <<>> /\ arg.op = "lookup"
    /\ res' = <<[found |-> lookup_get_chunk(arg.layers, arg.L, arg.layer_id, arg.pos),
                 layers |-> arg.layers]>>
    /\ UNCHANGED <<managerVars, arg>>

\* LayerConfig::generate(lookup) on layer A: the layer after it, the
\* LayerGenerationResult and the indices the generation function was called for
ApplyGenerate ==
    /\ pc = "pure" /\ res = <<>> /\ arg.op = "generate"
    /\ res' = <<[layer |-> generate(arg.layers, arg.layers["A"]),
                 deleted |-> SetToSeq(to_delete(arg.layers["A"])),
                 called |-> to_generate(arg.layers["A"])]>>
    /\ UNCHANGED <<managerVars, arg>>

\* LayerConfig::requires()
ApplyRequires ==
    /\ pc = "pure" /\ res = <<>> /\ arg.op = "requires"
    /\ res' = <<requires(arg.layer)>>
    /\ UNCHANGED <<managerVars, arg>>

\* a.intersects(&b) and b.intersects(&a)
ApplyIntersects ==
    /\ pc = "pure" /\ res = <<>> /\ arg.op = "intersects"
    /\ res' = <<[ab |-> intersects(arg.a, arg.b), ba |-> intersects(arg.b, arg.a)]>>
    /\ UNCHANGED <<managerVars, arg>>

\* Bounds::new, from_point, add_padding, expand, add_point, ChunkIdx::to_bounds
ApplyConstruct ==
    /\ pc = "pure" /\ res = <<>> /\ arg.op = "construct"
    /\ res' = <<CASE arg.fn = "new" -> new(arg.min, arg.max)
                  [] arg.fn = "from_point" -> from_point(arg.point)
                  [] arg.fn = "add_padding" -> add_padding(arg.bounds, arg.padding)
                  [] arg.fn = "expand" -> expand(arg.bounds, arg.padding[1], arg.padding[2])
                  [] arg.fn = "add_point" -> add_point(arg.bounds, arg.point)
                  [] arg.fn = "to_bounds" ->
                        to_bounds(arg.idx, arg.chunk_size[1], arg.chunk_size[2])>>
    /\ UNCHANGED <<managerVars, arg>>

\* UsageCounter::best_usage() and UsageCounter::is_empty()
ApplyBestUsage ==
    /\ pc = "pure" /\ res = <<>> /\ arg.op = "best_usage"
    /\ res' = <<[best |-> best_usage(arg.u), empty |-> is_empty(arg.u)]>>
    /\ UNCHANGED <<managerVars, arg>>

\* UsageCounter::increment(usage) or decrement(usage), in a build with or
\* without overflow checks
ApplyUsageOp ==
    /\ pc = "pure" /\ res = <<>> /\ arg.op = "usage_op"
    /\ res' = <<IF arg.fn = "increment"
                THEN [panicked |-> FALSE, u |-> increment(arg.u, arg.usage)]
                ELSE IF arg.overflow_checks /\ decrement_panics(arg.u, arg.usage)
                THEN [panicked |-> TRUE, u |-> arg.u]
                ELSE [panicked |-> FALSE, u |-> decrement(arg.u, arg.usage)]>>
    /\ UNCHANGED <<managerVars, arg>>

NextPure ==
    \/ ApplyChunks
    \/ ApplyCenter
    \/ ApplyEnsureGenerated
    \/ ApplyLookup
    \/ ApplyGenerate
    \/ ApplyRequires
    \/ ApplyIntersects
    \/ ApplyConstruct
    \/ ApplyBestUsage
    \/ ApplyUsageOp

SpecPure == InitPure /\ [][NextPure]_vars

Applied(op) == pc = "pure" /\ arg.op = op /\ res # <<>>

\* C8: Bounds::chunks yields exactly the indices whose cell rectangle
\* [i*S, (i+1)*S] shares a point with the bounds, each once.
C8_ChunksCoverage ==
    Applied("chunks") =>
        /\ Range(res[1]) = CellsIntersecting(arg.bounds, arg.chunk_size)
        /\ \A i \in Range(res[1]) : Count(res[1], i) = 1

\* C9: ChunkIdx::from_point(i.center(S), S) = i.
C9_CenterRoundTrip ==
    Applied("center") => res[1] = arg.idx

\* C10: ensure_generated twice with the same bounds leaves the index set that
\* one call leaves, the payload of every entry as one call leaves it and as
\* it was before, and only the Fast count of the covered entries one higher.
C10_EnsureGeneratedIdempotent ==
    Applied("ensure_generated") =>
        LET old == arg.layer.storage
            once == res[1].once.storage
            twice == res[1].twice.storage
            covered == chunks(arg.bounds, arg.layer.chunk_size)
        IN  /\ DOMAIN twice = DOMAIN once
            /\ DOMAIN once = (DOMAIN old) \cup covered
            /\ \A i \in DOMAIN twice :
                /\ twice[i].chunk = once[i].chunk
                /\ i \in DOMAIN old => twice[i].chunk = old[i].chunk
                /\ i \notin DOMAIN old => twice[i].chunk = None
                /\ twice[i].usage_counter =
                      IF i \in covered THEN increment(once[i].usage_counter, "Fast")
                      ELSE once[i].usage_counter

\* both calls covered an entry that held a payload and one that did not exist
C10_Witness ==
    /\ Applied("ensure_generated")
    /\ \E i \in DOMAIN arg.layer.storage :
        /\ i \in chunks(arg.bounds, arg.layer.chunk_size)
        /\ arg.layer.storage[i].chunk # None
        /\ res[1].twice.storage[i].usage_counter.fast =
              arg.layer.storage[i].usage_counter.fast + 2
    /\ \E i \in chunks(arg.bounds, arg.layer.chunk_size) : i \notin DOMAIN arg.layer.storage


\* the entry of the layer looked in, at the index the lookup computes
LookedUp ==
    idx_from_point(arg.pos, arg.layers[arg.L].chunk_size[1], arg.layers[arg.L].chunk_size[2])

\* C16: a lookup in layer P that expects the chunk type of another layer
\* finds nothing and leaves the layers as they were; a lookup that finds a
\* chunk finds one of the type it expects.
C16_LookupTypeMismatch ==
    Applied("lookup") =>
        /\ arg.L # arg.layer_id => res[1].found = None
        /\ res[1].found # None => res[1].found.of = arg.L
        /\ res[1].layers = arg.layers

\* the lookup expected another type at an index where P holds a payload
C16_Witness ==
    /\ Applied("lookup")
    /\ arg.L # arg.layer_id
    /\ LookedUp \in DOMAIN arg.layers[arg.layer_id].storage
    /\ arg.layers[arg.layer_id].storage[LookedUp].chunk # None
    /\ res[1].found = None

\* C24: generate treats each entry by its counts.  Fast count non-zero: the
\* entry stays, and if it has no payload the generation function is called
\* for it and its result stored.  Fast zero and Slow or KeepAlive non-zero:
\* the entry stays exactly as it was and the function is not called.  All
\* counts zero: the entry is removed and its index reported, once.
C24_GenerateByBestTier ==
    Applied("generate") =>
        LET layer == arg.layers["A"]
            was == layer.storage
            now == res[1].layer.storage
        IN  /\ DOMAIN now \subseteq DOMAIN was
            /\ Range(res[1].deleted) \subseteq DOMAIN was
            /\ \A idx \in DOMAIN was :
                LET u == was[idx].usage_counter
                IN  /\ u.fast > 0 /\ was[idx].chunk = None =>
                            /\ idx \in DOMAIN now
                            /\ idx \in res[1].called
                            /\ now[idx] = [was[idx] EXCEPT
                                            !.chunk = Layer_generate(arg.layers, layer, idx)]
                            /\ now[idx].chunk # None
                    /\ u.fast > 0 /\ was[idx].chunk # None =>
                            /\ idx \in DOMAIN now
                            /\ idx \notin res[1].called
                            /\ now[idx] = was[idx]
                    /\ u.fast = 0 /\ (u.slow > 0 \/ u.keep_alive > 0) =>
                            /\ idx \in DOMAIN now
                            /\ idx \notin res[1].called
                            /\ now[idx] = was[idx]
                    /\ u.fast = 0 /\ u.slow = 0 /\ u.keep_alive = 0 =>
                            /\ idx \notin DOMAIN now
                            /\ idx \notin res[1].called
                            /\ Count(res[1].deleted, idx) = 1
                    /\ Count(res[1].deleted, idx) > 0 =>
                            u.fast = 0 /\ u.slow = 0 /\ u.keep_alive = 0

\* one generate met an entry of each kind: Fast without payload, Slow without
\* payload, and unused with a payload
C24_Witness ==
    /\ Applied("generate")
    /\ LET was == arg.layers["A"].storage
       IN  /\ DOMAIN was = StoredIdx
           /\ was[<<0, 0>>].usage_counter.fast = 1 /\ was[<<0, 0>>].chunk = None
           /\ was[<<1, 0>>].usage_counter = [keep_alive |-> 0, slow |-> 2, fast |-> 0]
           /\ was[<<1, 0>>].chunk = None
           /\ was[<<2, 1>>].usage_counter = UsageCounter_new /\ was[<<2, 1>>].chunk # None
    /\ res[1].layer.storage[<<0, 0>>].chunk.seen = {<<"B", <<0, 0>>>>}
    /\ res[1].layer.storage[<<1, 0>>].chunk = None
    /\ res[1].deleted = <<<<2, 1>>>>

\* the cell of idx widened by padding on every side, in exact arithmetic
PaddedCell(idx, chunk_size, padding) ==
    [min |-> <<idx[1] * chunk_size[1] - padding[1], idx[2] * chunk_size[2] - padding[2]>>,
     max |-> <<(idx[1] + 1) * chunk_size[1] + padding[1],
               (idx[2] + 1) * chunk_size[2] + padding[2]>>]

\* the pair requires owes for the stored index idx and the k-th dependency
RequiredPair(layer, idx, k) ==
    <<layer.depends_on[k].layer_id,
      PaddedCell(idx, layer.chunk_size, layer.depends_on[k].padding)>>

\* C26: requires yields one pair (dependency id, padded cell of the index)
\* for every stored index and every declared dependency, |storage| x |edges|
\* pairs in all, whatever the usage counts of the entries.
C26_RequiresAllStoredIndices ==
    Applied("requires") =>
        LET layer == arg.layer
            combos == (DOMAIN layer.storage) \X (DOMAIN layer.depends_on)
        IN  /\ Len(res[1]) = Cardinality(DOMAIN layer.storage) * Len(layer.depends_on)
            /\ \A c \in combos :
                Count(res[1], RequiredPair(layer, c[1], c[2]))
                    = Cardinality({d \in combos :
                        RequiredPair(layer, d[1], d[2]) = RequiredPair(layer, c[1], c[2])})

\* a layer that declares the same dependency twice holds an entry with no
\* usage and one with usage: four pairs
C26_Witness ==
    /\ Applied("requires")
    /\ arg.layer.depends_on = <<Dependency("B", <<4, 4>>), Dependency("B", <<4, 4>>)>>
    /\ DOMAIN arg.layer.storage = {<<0, 0>>, <<2, 1>>}
    /\ is_empty(arg.layer.storage[<<0, 0>>].usage_counter)
    /\ ~is_empty(arg.layer.storage[<<2, 1>>].usage_counter)
    /\ Len(res[1]) = 4
    /\ Count(res[1], <<"B", new(<<-4, -4>>, <<8, 8>>)>>) = 2

\* the indices near the bounds drawn
NearIdx == (-6 .. 6) \X (-6 .. 6)

\* floor(lo / S) <= i, and i <= ceil(hi / S), i < ceil(hi / S), said without division
FromFloor(i, lo, S) == (i + 1) * S > lo
UpToCeil(i, hi, S) == (i - 1) * S < hi
BelowCeil(i, hi, S) == i * S < hi

InclusiveRange(b, S) ==
    {i \in NearIdx : /\ FromFloor(i[1], b.min[1], S[1]) /\ UpToCeil(i[1], b.max[1], S[1])
                     /\ FromFloor(i[2], b.min[2], S[2]) /\ UpToCeil(i[2], b.max[2], S[2])}

HalfOpenRange(b, S) ==
    {i \in NearIdx : /\ FromFloor(i[1], b.min[1], S[1]) /\ BelowCeil(i[1], b.max[1], S[1])
                     /\ FromFloor(i[2], b.min[2], S[2]) /\ BelowCeil(i[2], b.max[2], S[2])}

\* C27, as stated: Bounds::chunks yields on each axis the indices from
\* floor(min/S), included, to ceil(max/S), excluded.
C27_ChunksHalfOpenRange ==
    Applied("chunks") => Range(res[1]) = HalfOpenRange(arg.bounds, arg.chunk_size)

\* C27, amended: Bounds::chunks yields on each axis the indices from
\* floor(min/S) to ceil(max/S), both included, each index once.
C27_ChunksInclusiveRange ==
    Applied("chunks") =>
        /\ Range(res[1]) = InclusiveRange(arg.bounds, arg.chunk_size)
        /\ \A i \in Range(res[1]) : Count(res[1], i) = 1

\* the bounds of the point (0, 0): the half-open range is empty, and chunks
\* yields the index (0, 0)
C27_Witness ==
    /\ Applied("chunks")
    /\ arg.bounds = from_point(<<0, 0>>)
    /\ HalfOpenRange(arg.bounds, arg.chunk_size) = {}
    /\ res[1] = <<<<0, 0>>>>

\* C28: Bounds::intersects is true exactly when the two rectangles share a
\* point, boundary included, and gives the same answer with its arguments swapped.
C28_IntersectsSharePoint ==
    Applied("intersects") =>
        /\ res[1].ab = RectIntersects(arg.a, arg.b)
        /\ res[1].ab = res[1].ba

WellFormed(b) == b.min[1] <= b.max[1] /\ b.min[2] <= b.max[2]

\* C29: every Bounds that new, from_point, add_padding, expand, add_point and
\* to_bounds return has min.x <= max.x and min.y <= max.y, for all arguments,
\* negative padding included.
C29_BoundsWellFormed ==
    Applied("construct") => WellFormed(res[1])

\* C30: best_usage is Fast when the fast count is non-zero, else Slow when
\* the slow count is non-zero, else KeepAlive when the keep-alive count is
\* non-zero, else None; and it is None exactly when is_empty is true.
C30_BestUsageOrder ==
    Applied("best_usage") =>
        /\ arg.u.fast # 0 => res[1].best = "Fast"
        /\ arg.u.fast = 0 /\ arg.u.slow # 0 => res[1].best = "Slow"
        /\ arg.u.fast = 0 /\ arg.u.slow = 0 /\ arg.u.keep_alive # 0 => res[1].best = "KeepAlive"
        /\ arg.u.fast = 0 /\ arg.u.slow = 0 /\ arg.u.keep_alive = 0 => res[1].best = NoUsage
        /\ res[1].best = NoUsage <=> res[1].empty

\* a counter with keep-alive and slow counts and no fast count is answered Slow
C30_Witness ==
    /\ Applied("best_usage")
    /\ arg.u = [keep_alive |-> 3, slow |-> 1, fast |-> 0]
    /\ res[1] = [best |-> "Slow", empty |-> FALSE]

\* C31: increment and decrement of a tier, when they return, have moved the
\* count of that tier by one, or left a count of 0 at 0, and have left the
\* two other counts as they were; no count is negative or has wrapped around.
C31_UsageCountsIndependent ==
    (Applied("usage_op") /\ ~res[1].panicked) =>
        LET count(u, t) == CASE t = "KeepAlive" -> u.keep_alive
                             [] t = "Slow" -> u.slow
                             [] t = "Fast" -> u.fast
            step == IF arg.fn = "increment" THEN 1 ELSE -1
        IN  /\ \A t \in UsageStrategy \ {arg.usage} : count(res[1].u, t) = count(arg.u, t)
            /\ \/ count(res[1].u, arg.usage) = count(arg.u, arg.usage) + step
               \/ count(arg.u, arg.usage) = 0 /\ count(res[1].u, arg.usage) = 0
            /\ \A t \in UsageStrategy : count(res[1].u, t) >= 0

====
